---- MODULE Spec2Model ----
(***************************************************************************)
(* Automatic differentiation of the example functions of ad-rs-tutorial.   *)
(*                                                                         *)
(* The primal functions and the call sites of their differentiated         *)
(* companions are translated from src/examples/*/src/main.rs into a small  *)
(* register program each.  The engine that runs them (activity classifier, *)
(* tape recorder, adjoint replayer, dual propagator, shadow buffer         *)
(* manager) is not part of the sources; it is modelled from sections 3-7   *)
(* of the specification.  f64 values are exact rationals <<num, den>>,     *)
(* and floats <<m, 2, e>> of a bounded mantissa where the code iterates.   *)
(***************************************************************************)
EXTENDS Integers, Sequences, FiniteSets, TLC

VARIABLES
    calls,      \* the differentiation calls: their inputs, tape, adjoints, result
    shadow,     \* the callers' shadow buffers
    pre,        \* per call, the shadow buffers as they were when the call began
    round,      \* calls made in a row on the same buffers
    clock,      \* per call, the steps it has taken since it was made
    main        \* the locals of the caller, where its main is modelled

vars == <<calls, shadow, pre, round, clock, main>>

----------------------------------------------------------------------------
(* Bounds of the model *)

\* scalar inputs are the integers -MaxAbs .. MaxAbs
MaxAbs == 3
\* trip counts n of power_loop are 0 .. MaxN
MaxN == 4
\* slice arguments have 0 .. MaxLen elements
MaxLen == 2
\* calls made in a row on the same shadow buffers
MaxCalls == 2
\* bits of the mantissa of a float
MantBits == 14
\* the largest |x| given to exp_approx
MaxExpX == 40
\* iterations of a caller's gradient descent loop
MaxIters == 2

\* const N_STEPS: usize = 4;
N_STEPS == 4

----------------------------------------------------------------------------
(* f64 values as exact rationals: <<num, den>> with den > 0 in lowest      *)
(* terms; den = 0 is a non-finite result (division by zero)                *)

Abs(n) == IF n < 0 THEN -n ELSE n

RECURSIVE GCD(_, _)
GCD(a, b) == IF b = 0 THEN a ELSE GCD(b, a % b)

\* n / d with the common factor g taken out, the sign s of d moved to n
Reduced(n, d, g, s) == <<(s * n) \div g, (s * d) \div g>>

R(n, d) ==
    IF d = 0 THEN <<0, 0>>
    ELSE Reduced(n, d, GCD(Abs(n), Abs(d)), IF d < 0 THEN -1 ELSE 1)

Zero == R(0, 1)
One == R(1, 1)
Half == R(1, 2)

\* a non-finite f64
NaN == <<0, 0>>

Finite(a) == a[2] # 0

----------------------------------------------------------------------------
(* f64 values beyond the reach of exact arithmetic (Newton and Taylor      *)
(* iterations, 1e-10, the rotations of the qubit): binary floating point   *)
(* <<m, 2, e>> = m * 2^e with a mantissa of MantBits bits, rounded to      *)
(* nearest, ties to even; zero is <<0, 2, 0>>                              *)

IsF(a) == Len(a) = 3

RECURSIVE BitLen(_)
BitLen(n) == IF n = 0 THEN 0 ELSE 1 + BitLen(n \div 2)

\* sg * q1 * 2^e, q1 of at most MantBits bits or 2^MantBits
FCarry(sg, q1, e) ==
    IF q1 = 2^MantBits THEN <<sg * 2^(MantBits - 1), 2, e + 1>> ELSE <<sg * q1, 2, e>>

\* sg * (q + r / (2 * h)) * 2^e rounded to nearest, ties to even
FRound(sg, q, r, h, e) ==
    FCarry(sg, IF r > h \/ (r = h /\ q % 2 = 1) THEN q + 1 ELSE q, e)

\* m * 2^e, m # 0, with s bits of m beyond the mantissa
FShift(m, e, s) ==
    IF s <= 0 THEN <<m * 2^(-s), 2, e + s>>
    ELSE FRound(IF m < 0 THEN -1 ELSE 1, Abs(m) \div 2^s, Abs(m) % 2^s, 2^(s - 1), e + s)

\* the float nearest to m * 2^e
FNorm(m, e) == IF m = 0 THEN <<0, 2, 0>> ELSE FShift(m, e, BitLen(Abs(m)) - MantBits)

FNeg(a) == <<-a[1], 2, a[3]>>

FMul(a, b) == FNorm(a[1] * b[1], a[3] + b[3])

\* an addend more than MantBits binary places below the other is lost
FAlign(hi, lo) ==
    IF hi[3] - lo[3] > MantBits THEN hi
    ELSE FNorm(hi[1] * 2^(hi[3] - lo[3]) + lo[1], lo[3])

FAdd(a, b) ==
    IF a[1] = 0 THEN b
    ELSE IF b[1] = 0 THEN a
    ELSE IF a[3] >= b[3] THEN FAlign(a, b) ELSE FAlign(b, a)

\* sg * num / den * 2^e, the quotient rounded to an integer
FQuot(sg, num, den, e) ==
    FNorm(sg * (IF 2 * (num % den) >= den THEN num \div den + 1 ELSE num \div den), e)

\* b # 0
FDiv(a, b) ==
    FQuot(IF (a[1] < 0) = (b[1] < 0) THEN 1 ELSE -1,
          Abs(a[1]) * 2^MantBits, Abs(b[1]), a[3] - b[3] - MantBits)

\* the float of a finite value: n / d rounded
ToF(a) == IF IsF(a) THEN a ELSE FDiv(FNorm(a[1], 0), FNorm(a[2], 0))

\* the f64 arithmetic: exact on exact operands, floating as soon as one
\* operand is a float; a non-finite operand gives a non-finite result
RAdd(a, b) ==
    IF ~(Finite(a) /\ Finite(b)) THEN <<0, 0>>
    ELSE IF IsF(a) \/ IsF(b) THEN FAdd(ToF(a), ToF(b))
    ELSE R(a[1] * b[2] + b[1] * a[2], a[2] * b[2])
RNeg(a) ==
    IF ~Finite(a) THEN <<0, 0>>
    ELSE IF IsF(a) THEN FNeg(a)
    ELSE R(-a[1], a[2])
RSub(a, b) ==
    IF ~(Finite(a) /\ Finite(b)) THEN <<0, 0>>
    ELSE IF IsF(a) \/ IsF(b) THEN FAdd(ToF(a), FNeg(ToF(b)))
    ELSE R(a[1] * b[2] - b[1] * a[2], a[2] * b[2])
RMul(a, b) ==
    IF ~(Finite(a) /\ Finite(b)) THEN <<0, 0>>
    ELSE IF IsF(a) \/ IsF(b) THEN FMul(ToF(a), ToF(b))
    ELSE R(a[1] * b[1], a[2] * b[2])
RDiv(a, b) ==
    IF ~(Finite(a) /\ Finite(b)) THEN <<0, 0>>
    ELSE IF IsF(a) \/ IsF(b)
         THEN (IF ToF(b)[1] = 0 THEN <<0, 0>> ELSE FDiv(ToF(a), ToF(b)))
    ELSE R(a[1] * b[2], a[2] * b[1])
\* the sign of a - b: -1, 0 or 1
Sign(d) == IF d[1] < 0 THEN -1 ELSE IF d[1] > 0 THEN 1 ELSE 0
RSign(a, b) == Sign(RSub(a, b))
RLt(a, b) ==
    /\ Finite(a) /\ Finite(b)
    /\ IF IsF(a) \/ IsF(b) THEN RSign(a, b) < 0 ELSE a[1] * b[2] < b[1] * a[2]
RGe(a, b) ==
    /\ Finite(a) /\ Finite(b)
    /\ IF IsF(a) \/ IsF(b) THEN RSign(a, b) >= 0 ELSE a[1] * b[2] >= b[1] * a[2]
\* a == b of f64: 0.0 == 0.0 in either representation
REq(a, b) == Finite(a) /\ Finite(b) /\ ~RLt(a, b) /\ ~RLt(b, a)

----------------------------------------------------------------------------
(* Register programs: one instruction per primitive operation of the       *)
(* source, in evaluation order.  An operand is a variable, a literal or    *)
(* the length of a slice parameter.                                        *)

V(name) == [t |-> "var", v |-> name, n |-> Zero]
L(num, den) == [t |-> "lit", v |-> "", n |-> R(num, den)]
LenOf(name) == [t |-> "len", v |-> name, n |-> Zero]
\* a literal beyond exact arithmetic, given as its float
Lf(val) == [t |-> "lit", v |-> "", n |-> val]

\* 1e-10
Eps == RDiv(One, RMul(ToF(R(100000, 1)), R(100000, 1)))

\* d = a op b, op one of add, sub, mul, div
Bin(op, d, a, b) == [k |-> "bin", op |-> op, d |-> d, a |-> a, b |-> b, t |-> 0, f |-> 0, rs |-> <<>>]
\* d = -a
Neg(d, a) == [k |-> "neg", op |-> "neg", d |-> d, a |-> a, b |-> a, t |-> 0, f |-> 0, rs |-> <<>>]
\* d = arr[i]
Load(d, arr, i) == [k |-> "load", op |-> "load", d |-> d, a |-> V(arr), b |-> i, t |-> 0, f |-> 0, rs |-> <<>>]
\* let d = a;
Mov(d, a) == [k |-> "mov", op |-> "mov", d |-> d, a |-> a, b |-> a, t |-> 0, f |-> 0, rs |-> <<>>]
\* d = f(a), f one of the helpers my_sin, my_cos, differentiated as a unit
Call(f, d, a) == [k |-> "call", op |-> f, d |-> d, a |-> a, b |-> a, t |-> 0, f |-> 0, rs |-> <<>>]
\* let d = arr[i]; on a local array, its element arr[i] the variable a
Get(d, a) == Call("load", d, a)
\* arr[i] = a; on a local array, its element arr[i] the variable d
Store(d, a) == Call("store", d, a)
\* if a cmp b goto t else goto f, cmp one of lt, ge, eq
Br(cmp, a, b, t, f) == [k |-> "br", op |-> cmp, d |-> "", a |-> a, b |-> b, t |-> t, f |-> f, rs |-> <<>>]
\* back edge of a loop
Jmp(t) == [k |-> "jmp", op |-> "jmp", d |-> "", a |-> L(0, 1), b |-> L(0, 1), t |-> t, f |-> t, rs |-> <<>>]
\* return the tuple rs
Ret(rs) == [k |-> "ret", op |-> "ret", d |-> "", a |-> L(0, 1), b |-> L(0, 1), t |-> 0, f |-> 0, rs |-> rs]

\* square with the product replaced by a sum
square_mut ==
    << Bin("add", "t1", V("x"), V("x")),
       Ret(<<V("t1")>>) >>

\* fn square(x: f64) -> f64 { x * x }
square ==
    << Bin("mul", "t1", V("x"), V("x")),
       Ret(<<V("t1")>>) >>

\* quadratic without its cross term: x * x + y * y + y * y
quadratic_mut ==
    << Bin("mul", "t1", V("x"), V("x")),
       Bin("mul", "t2", V("y"), V("y")),
       Bin("add", "t3", V("t1"), V("t2")),
       Bin("mul", "t4", V("y"), V("y")),
       Bin("add", "t5", V("t3"), V("t4")),
       Ret(<<V("t5")>>) >>

\* fn quadratic(x: f64, y: f64) -> f64 { x * x + x * y + y * y }
quadratic ==
    << Bin("mul", "t1", V("x"), V("x")),
       Bin("mul", "t2", V("x"), V("y")),
       Bin("add", "t3", V("t1"), V("t2")),
       Bin("mul", "t4", V("y"), V("y")),
       Bin("add", "t5", V("t3"), V("t4")),
       Ret(<<V("t5")>>) >>

\* fn complex_mag_squared(re: f64, im: f64) -> f64 { re * re + im * im }
complex_mag_squared ==
    << Bin("mul", "t1", V("re"), V("re")),
       Bin("mul", "t2", V("im"), V("im")),
       Bin("add", "t3", V("t1"), V("t2")),
       Ret(<<V("t3")>>) >>

\* fn mandelbrot_step(z_re, z_im, c_re, c_im) -> f64: |z * z + c|^2, with
\* complex_mul(z_re, z_im, z_re, z_im) = (a_re * b_re - a_im * b_im,
\* a_re * b_im + a_im * b_re)
mandelbrot_step ==
    << Bin("mul", "t1", V("z_re"), V("z_re")),
       Bin("mul", "t2", V("z_im"), V("z_im")),
       Bin("sub", "sq_re", V("t1"), V("t2")),
       Bin("mul", "t3", V("z_re"), V("z_im")),
       Bin("mul", "t4", V("z_im"), V("z_re")),
       Bin("add", "sq_im", V("t3"), V("t4")),
       Bin("add", "new_re", V("sq_re"), V("c_re")),
       Bin("add", "new_im", V("sq_im"), V("c_im")),
       Bin("mul", "t5", V("new_re"), V("new_re")),
       Bin("mul", "t6", V("new_im"), V("new_im")),
       Bin("add", "t7", V("t5"), V("t6")),
       Ret(<<V("t7")>>) >>

\* cubic with 2.0 + x for 2.0 * x
cubic_mut ==
    << Bin("mul", "t1", V("x"), V("x")),
       Bin("mul", "t2", V("t1"), V("x")),
       Bin("add", "t3", L(2, 1), V("x")),
       Bin("add", "t4", V("t2"), V("t3")),
       Ret(<<V("t4")>>) >>

\* fn cubic(x: f64) -> f64 { x * x * x + 2.0 * x }
cubic ==
    << Bin("mul", "t1", V("x"), V("x")),
       Bin("mul", "t2", V("t1"), V("x")),
       Bin("mul", "t3", L(2, 1), V("x")),
       Bin("add", "t4", V("t2"), V("t3")),
       Ret(<<V("t4")>>) >>

\* fn multi_output(x: f64) -> (f64, f64) { (x * x, x * x * x) }
multi_output ==
    << Bin("mul", "t1", V("x"), V("x")),
       Bin("mul", "t2", V("x"), V("x")),
       Bin("mul", "t3", V("t2"), V("x")),
       Ret(<<V("t1"), V("t3")>>) >>

\* fn active_demo(x: f64) -> f64 { x * x * x }
active_demo ==
    << Bin("mul", "t1", V("x"), V("x")),
       Bin("mul", "t2", V("t1"), V("x")),
       Ret(<<V("t2")>>) >>

\* fn const_demo(x: f64, scale: f64) -> f64 { scale * x * x }
const_demo ==
    << Bin("mul", "t1", V("scale"), V("x")),
       Bin("mul", "t2", V("t1"), V("x")),
       Ret(<<V("t2")>>) >>

\* fn duplicated_demo(x: &[f64]) -> f64: sum of x[i] * x[i]
duplicated_demo ==
    << Mov("sum", L(0, 1)),
       Mov("i", L(0, 1)),
       Br("lt", V("i"), LenOf("x"), 4, 10),
       Load("t1", "x", V("i")),
       Load("t2", "x", V("i")),
       Bin("mul", "t3", V("t1"), V("t2")),
       Bin("add", "sum", V("sum"), V("t3")),
       Bin("add", "i", V("i"), L(1, 1)),
       Jmp(3),
       Ret(<<V("sum")>>) >>

\* dot_product with x[i] * x[i] for x[i] * w[i]
dot_product_mut ==
    << Mov("sum", L(0, 1)),
       Mov("n", LenOf("x")),
       Mov("i", L(0, 1)),
       Br("lt", V("i"), V("n"), 5, 11),
       Load("t1", "x", V("i")),
       Load("t2", "x", V("i")),
       Bin("mul", "t3", V("t1"), V("t2")),
       Bin("add", "sum", V("sum"), V("t3")),
       Bin("add", "i", V("i"), L(1, 1)),
       Jmp(4),
       Ret(<<V("sum")>>) >>

\* fn dot_product(x: &[f64], w: &[f64]) -> f64: sum of x[i] * w[i], i < x.len()
dot_product ==
    << Mov("sum", L(0, 1)),
       Mov("n", LenOf("x")),
       Mov("i", L(0, 1)),
       Br("lt", V("i"), V("n"), 5, 11),
       Load("t1", "x", V("i")),
       Load("t2", "w", V("i")),
       Bin("mul", "t3", V("t1"), V("t2")),
       Bin("add", "sum", V("sum"), V("t3")),
       Bin("add", "i", V("i"), L(1, 1)),
       Jmp(4),
       Ret(<<V("sum")>>) >>

\* exp_approx without the bound k < 100 on its loop
exp_approx_mut ==
    << Mov("sum", L(1, 1)),
       Mov("term", L(1, 1)),
       Mov("k", L(1, 1)),
       Br("lt", V("term"), L(0, 1), 5, 7),
       Neg("a", V("term")),
       Jmp(8),
       Mov("a", V("term")),
       Br("lt", Lf(Eps), V("a"), 10, 15),
       Br("lt", V("k"), L(100, 1), 10, 15),
       Bin("div", "t1", V("x"), V("k")),
       Bin("mul", "term", V("term"), V("t1")),
       Bin("add", "sum", V("sum"), V("term")),
       Bin("add", "k", V("k"), L(1, 1)),
       Jmp(4),
       Ret(<<V("sum")>>) >>

\* fn exp_approx(x: f64) -> f64: sum = 1.0, term = 1.0, k = 1;
\* while (if term < 0.0 { -term } else { term }) > 1e-10 && k < 100
\*     { term *= x / (k as f64); sum += term; k += 1; }
exp_approx ==
    << Mov("sum", L(1, 1)),
       Mov("term", L(1, 1)),
       Mov("k", L(1, 1)),
       Br("lt", V("term"), L(0, 1), 5, 7),
       Neg("a", V("term")),
       Jmp(8),
       Mov("a", V("term")),
       Br("lt", Lf(Eps), V("a"), 9, 15),
       Br("lt", V("k"), L(100, 1), 10, 15),
       Bin("div", "t1", V("x"), V("k")),
       Bin("mul", "term", V("term"), V("t1")),
       Bin("add", "sum", V("sum"), V("term")),
       Bin("add", "k", V("k"), L(1, 1)),
       Jmp(4),
       Ret(<<V("sum")>>) >>

\* l2_norm without its early return: the Newton loop runs on guess = 0
l2_norm_mut ==
    << Mov("sum", L(0, 1)),
       Mov("i", L(0, 1)),
       Br("lt", V("i"), LenOf("x"), 4, 10),
       Load("t1", "x", V("i")),
       Load("t2", "x", V("i")),
       Bin("mul", "t3", V("t1"), V("t2")),
       Bin("add", "sum", V("sum"), V("t3")),
       Bin("add", "i", V("i"), L(1, 1)),
       Jmp(3),
       Bin("div", "guess", V("sum"), L(2, 1)),
       Br("eq", V("guess"), L(0, 1), 13, 13),
       Ret(<<L(0, 1)>>),
       Mov("j", L(0, 1)),
       Br("lt", V("j"), L(10, 1), 15, 20),
       Bin("div", "t4", V("sum"), V("guess")),
       Bin("add", "t5", V("guess"), V("t4")),
       Bin("div", "guess", V("t5"), L(2, 1)),
       Bin("add", "j", V("j"), L(1, 1)),
       Jmp(14),
       Ret(<<V("guess")>>) >>

\* fn l2_norm(x: &[f64]) -> f64: sum of x[i] * x[i], then 10 Newton steps
\* guess = (guess + sum / guess) / 2.0 from guess = sum / 2.0, unless
\* guess == 0.0, which returns 0.0
l2_norm ==
    << Mov("sum", L(0, 1)),
       Mov("i", L(0, 1)),
       Br("lt", V("i"), LenOf("x"), 4, 10),
       Load("t1", "x", V("i")),
       Load("t2", "x", V("i")),
       Bin("mul", "t3", V("t1"), V("t2")),
       Bin("add", "sum", V("sum"), V("t3")),
       Bin("add", "i", V("i"), L(1, 1)),
       Jmp(3),
       Bin("div", "guess", V("sum"), L(2, 1)),
       Br("eq", V("guess"), L(0, 1), 12, 13),
       Ret(<<L(0, 1)>>),
       Mov("j", L(0, 1)),
       Br("lt", V("j"), L(10, 1), 15, 20),
       Bin("div", "t4", V("sum"), V("guess")),
       Bin("add", "t5", V("guess"), V("t4")),
       Bin("div", "guess", V("t5"), L(2, 1)),
       Bin("add", "j", V("j"), L(1, 1)),
       Jmp(14),
       Ret(<<V("guess")>>) >>

\* branching with the test x > 0.0 (0.0 >= x sends x = 0 to the else branch)
branching_mut ==
    << Br("ge", L(0, 1), V("x"), 4, 2),
       Bin("mul", "t1", V("x"), V("x")),
       Ret(<<V("t1")>>),
       Bin("mul", "t1", V("x"), V("x")),
       Neg("t2", V("t1")),
       Ret(<<V("t2")>>) >>

\* fn branching(x: f64) -> f64 { if x >= 0.0 { x * x } else { -(x * x) } }
branching ==
    << Br("ge", V("x"), L(0, 1), 2, 4),
       Bin("mul", "t1", V("x"), V("x")),
       Ret(<<V("t1")>>),
       Bin("mul", "t1", V("x"), V("x")),
       Neg("t2", V("t1")),
       Ret(<<V("t2")>>) >>

\* power_loop with the loop test i <= n
power_loop_mut ==
    << Mov("result", L(1, 1)),
       Mov("i", L(0, 1)),
       Br("ge", V("n"), V("i"), 4, 7),
       Bin("mul", "result", V("result"), V("x")),
       Bin("add", "i", V("i"), L(1, 1)),
       Jmp(3),
       Ret(<<V("result")>>) >>

\* fn power_loop(x: f64, n: usize) -> f64: result *= x, n times
power_loop ==
    << Mov("result", L(1, 1)),
       Mov("i", L(0, 1)),
       Br("lt", V("i"), V("n"), 4, 7),
       Bin("mul", "result", V("result"), V("x")),
       Bin("add", "i", V("i"), L(1, 1)),
       Jmp(3),
       Ret(<<V("result")>>) >>

\* fn energy_cost(controls: &[f64; N_STEPS]) -> f64: sum of controls[i]^2
energy_cost ==
    << Mov("sum", L(0, 1)),
       Mov("i", L(0, 1)),
       Br("lt", V("i"), L(N_STEPS, 1), 4, 10),
       Load("t1", "controls", V("i")),
       Load("t2", "controls", V("i")),
       Bin("mul", "t3", V("t1"), V("t2")),
       Bin("add", "sum", V("sum"), V("t3")),
       Bin("add", "i", V("i"), L(1, 1)),
       Jmp(3),
       Ret(<<V("sum")>>) >>

\* fn infidelity(controls: &[f64; N_STEPS]) -> f64, with apply_rz(&mut state,
\* omega0) at 12..35 and apply_rx(&mut state, controls[i]) at 36..61 in
\* the place of their calls: both read state[0..3] into re0, im0, re1, im1
\* and then overwrite state[0..3]
infidelity ==
    << Store("state[0]", L(1, 1)),
       Store("state[1]", L(0, 1)),
       Store("state[2]", L(0, 1)),
       Store("state[3]", L(0, 1)),
       Store("target[0]", L(0, 1)),
       Store("target[1]", L(0, 1)),
       Store("target[2]", L(1, 1)),
       Store("target[3]", L(0, 1)),
       Mov("omega0", L(1, 10)),
       Mov("i", L(0, 1)),
       Br("lt", V("i"), L(N_STEPS, 1), 12, 64),
       Bin("div", "h", V("omega0"), L(2, 1)),
       Call("my_cos", "c", V("h")),
       Bin("div", "h", V("omega0"), L(2, 1)),
       Call("my_sin", "s", V("h")),
       Get("re0", V("state[0]")),
       Get("im0", V("state[1]")),
       Get("re1", V("state[2]")),
       Get("im1", V("state[3]")),
       Bin("mul", "t1", V("c"), V("re0")),
       Bin("mul", "t2", V("s"), V("im0")),
       Bin("add", "t3", V("t1"), V("t2")),
       Store("state[0]", V("t3")),
       Bin("mul", "t1", V("c"), V("im0")),
       Bin("mul", "t2", V("s"), V("re0")),
       Bin("sub", "t3", V("t1"), V("t2")),
       Store("state[1]", V("t3")),
       Bin("mul", "t1", V("c"), V("re1")),
       Bin("mul", "t2", V("s"), V("im1")),
       Bin("sub", "t3", V("t1"), V("t2")),
       Store("state[2]", V("t3")),
       Bin("mul", "t1", V("c"), V("im1")),
       Bin("mul", "t2", V("s"), V("re1")),
       Bin("add", "t3", V("t1"), V("t2")),
       Store("state[3]", V("t3")),
       Load("theta", "controls", V("i")),
       Bin("div", "h", V("theta"), L(2, 1)),
       Call("my_cos", "c", V("h")),
       Bin("div", "h", V("theta"), L(2, 1)),
       Call("my_sin", "s", V("h")),
       Get("re0", V("state[0]")),
       Get("im0", V("state[1]")),
       Get("re1", V("state[2]")),
       Get("im1", V("state[3]")),
       Bin("mul", "t1", V("c"), V("re0")),
       Bin("mul", "t2", V("s"), V("im1")),
       Bin("add", "t3", V("t1"), V("t2")),
       Store("state[0]", V("t3")),
       Bin("mul", "t1", V("c"), V("im0")),
       Bin("mul", "t2", V("s"), V("re1")),
       Bin("sub", "t3", V("t1"), V("t2")),
       Store("state[1]", V("t3")),
       Bin("mul", "t1", V("s"), V("im0")),
       Bin("mul", "t2", V("c"), V("re1")),
       Bin("add", "t3", V("t1"), V("t2")),
       Store("state[2]", V("t3")),
       Neg("t1", V("s")),
       Bin("mul", "t1", V("t1"), V("re0")),
       Bin("mul", "t2", V("c"), V("im1")),
       Bin("add", "t3", V("t1"), V("t2")),
       Store("state[3]", V("t3")),
       Bin("add", "i", V("i"), L(1, 1)),
       Jmp(11),
       Get("a", V("target[0]")),
       Get("b", V("state[0]")),
       Bin("mul", "re_overlap", V("a"), V("b")),
       Get("a", V("target[1]")),
       Get("b", V("state[1]")),
       Bin("mul", "t1", V("a"), V("b")),
       Bin("add", "re_overlap", V("re_overlap"), V("t1")),
       Get("a", V("target[2]")),
       Get("b", V("state[2]")),
       Bin("mul", "t1", V("a"), V("b")),
       Bin("add", "re_overlap", V("re_overlap"), V("t1")),
       Get("a", V("target[3]")),
       Get("b", V("state[3]")),
       Bin("mul", "t1", V("a"), V("b")),
       Bin("add", "re_overlap", V("re_overlap"), V("t1")),
       Get("a", V("target[0]")),
       Get("b", V("state[1]")),
       Bin("mul", "im_overlap", V("a"), V("b")),
       Get("a", V("target[1]")),
       Get("b", V("state[0]")),
       Bin("mul", "t1", V("a"), V("b")),
       Bin("sub", "im_overlap", V("im_overlap"), V("t1")),
       Get("a", V("target[2]")),
       Get("b", V("state[3]")),
       Bin("mul", "t1", V("a"), V("b")),
       Bin("add", "im_overlap", V("im_overlap"), V("t1")),
       Get("a", V("target[3]")),
       Get("b", V("state[2]")),
       Bin("mul", "t1", V("a"), V("b")),
       Bin("sub", "im_overlap", V("im_overlap"), V("t1")),
       Bin("mul", "t1", V("re_overlap"), V("re_overlap")),
       Bin("mul", "t2", V("im_overlap"), V("im_overlap")),
       Bin("add", "fidelity", V("t1"), V("t2")),
       Bin("sub", "t3", L(1, 1), V("fidelity")),
       Ret(<<V("t3")>>) >>

\* let lambda = 0.01;
lambda == R(1, 100)

\* an instruction of a primal placed off instructions further down in
\* another, its returned value assigned to res
Relocate(ins, off, res) ==
    IF ins.k = "ret" THEN Mov(res, ins.rs[1])
    ELSE [ins EXCEPT !.t = IF @ = 0 THEN 0 ELSE @ + off, !.f = IF @ = 0 THEN 0 ELSE @ + off]

\* the loss without the weight of the energy
loss_mut ==
    [i \in DOMAIN infidelity |-> Relocate(infidelity[i], 0, "infid")]
    \o [i \in DOMAIN energy_cost |-> Relocate(energy_cost[i], Len(infidelity), "energy")]
    \o << Bin("add", "loss", V("infid"), V("energy")),
          Ret(<<V("loss")>>) >>

\* let loss = infid + lambda * energy, as one function of controls
loss ==
    [i \in DOMAIN infidelity |-> Relocate(infidelity[i], 0, "infid")]
    \o [i \in DOMAIN energy_cost |-> Relocate(energy_cost[i], Len(infidelity), "energy")]
    \o << Bin("mul", "t1", Lf(lambda), V("energy")),
          Bin("add", "loss", V("infid"), V("t1")),
          Ret(<<V("loss")>>) >>

\* const A: f64 = 1.0; const B: f64 = 100.0;
A == R(1, 1)
B == R(100, 1)

\* fn rosenbrock(x: f64, y: f64) -> f64: term1 = A - x, term2 = y - x * x,
\* term1 * term1 + B * term2 * term2
rosenbrock ==
    << Bin("sub", "term1", Lf(A), V("x")),
       Bin("mul", "t1", V("x"), V("x")),
       Bin("sub", "term2", V("y"), V("t1")),
       Bin("mul", "t2", V("term1"), V("term1")),
       Bin("mul", "t3", Lf(B), V("term2")),
       Bin("mul", "t4", V("t3"), V("term2")),
       Bin("add", "t5", V("t2"), V("t4")),
       Ret(<<V("t5")>>) >>

\* fn linear_loss(x, weights, bias, target) -> f64: ||Wx + b - target||^2 / 2
linear_loss ==
    << Load("w0", "weights", L(0, 1)),
       Load("x0", "x", L(0, 1)),
       Bin("mul", "a0", V("w0"), V("x0")),
       Load("w1", "weights", L(1, 1)),
       Load("x1", "x", L(1, 1)),
       Bin("mul", "a1", V("w1"), V("x1")),
       Bin("add", "a2", V("a0"), V("a1")),
       Load("b0", "bias", L(0, 1)),
       Bin("add", "y0", V("a2"), V("b0")),
       Load("w2", "weights", L(2, 1)),
       Load("x0b", "x", L(0, 1)),
       Bin("mul", "c0", V("w2"), V("x0b")),
       Load("w3", "weights", L(3, 1)),
       Load("x1b", "x", L(1, 1)),
       Bin("mul", "c1", V("w3"), V("x1b")),
       Bin("add", "c2", V("c0"), V("c1")),
       Load("b1", "bias", L(1, 1)),
       Bin("add", "y1", V("c2"), V("b1")),
       Load("g0", "target", L(0, 1)),
       Bin("sub", "diff0", V("y0"), V("g0")),
       Load("g1", "target", L(1, 1)),
       Bin("sub", "diff1", V("y1"), V("g1")),
       Bin("mul", "s0", V("diff0"), V("diff0")),
       Bin("mul", "s1", V("diff1"), V("diff1")),
       Bin("add", "s2", V("s0"), V("s1")),
       Bin("div", "loss", V("s2"), L(2, 1)),
       Ret(<<V("loss")>>) >>

----------------------------------------------------------------------------
(* The differentiated functions: the activity annotations of each          *)
(* #[autodiff_reverse(...)] / #[autodiff_forward(...)] attribute, with the *)
(* parameter list of the primal.  shape: scalar (f64, usize), slice        *)
(* (&[f64]) or array (&[f64; N]).                                          *)

Sig(mode, params, shape, act, prog) ==
    [mode |-> mode, params |-> params, shape |-> shape, act |-> act, prog |-> prog]

\* #[autodiff_reverse(d_square, Active, Active)]
d_square == Sig("rev", <<"x">>, <<"scalar">>, <<"Active">>, square)
\* #[autodiff_reverse(d_quadratic, Active, Active, Active)]
d_quadratic == Sig("rev", <<"x", "y">>, <<"scalar", "scalar">>, <<"Active", "Active">>, quadratic)
\* #[autodiff_reverse(d_complex_mag_sq, Active, Active, Active)]
d_complex_mag_sq == Sig("rev", <<"re", "im">>, <<"scalar", "scalar">>, <<"Active", "Active">>, complex_mag_squared)
\* #[autodiff_reverse(d_mandelbrot_step, Active, Active, Active, Active, Active)]
d_mandelbrot_step ==
    Sig("rev", <<"z_re", "z_im", "c_re", "c_im">>, <<"scalar", "scalar", "scalar", "scalar">>,
        <<"Active", "Active", "Active", "Active">>, mandelbrot_step)
\* #[autodiff_reverse(d_l2_norm, Duplicated, Active)]
d_l2_norm == Sig("rev", <<"x">>, <<"slice">>, <<"Duplicated">>, l2_norm)
\* #[autodiff_reverse(d_infidelity, Duplicated, Active)]
d_infidelity == Sig("rev", <<"controls">>, <<"array">>, <<"Duplicated">>, infidelity)
\* #[autodiff_reverse(d_rosenbrock, Active, Active, Active)]
d_rosenbrock == Sig("rev", <<"x", "y">>, <<"scalar", "scalar">>, <<"Active", "Active">>, rosenbrock)
\* infid + lambda * energy differentiated as d_infidelity and d_energy are
d_loss == Sig("rev", <<"controls">>, <<"array">>, <<"Duplicated">>, loss)
\* #[autodiff_reverse(d_exp_approx, Active, Active)]
d_exp_approx == Sig("rev", <<"x">>, <<"scalar">>, <<"Active">>, exp_approx)
\* #[autodiff_forward(d_cubic, Dual, Dual)]
d_cubic == Sig("fwd", <<"x">>, <<"scalar">>, <<"Dual">>, cubic)
\* #[autodiff_forward(d_multi_out, Dual, Dual)]
d_multi_out == Sig("fwd", <<"x">>, <<"scalar">>, <<"Dual">>, multi_output)
\* #[autodiff_reverse(d_active_demo, Active, Active)]
d_active_demo == Sig("rev", <<"x">>, <<"scalar">>, <<"Active">>, active_demo)
\* d_const_demo with scale Active
d_const_demo_mut == Sig("rev", <<"x", "scale">>, <<"scalar", "scalar">>, <<"Active", "Active">>, const_demo)
\* #[autodiff_reverse(d_const_demo, Active, Const, Active)]
d_const_demo == Sig("rev", <<"x", "scale">>, <<"scalar", "scalar">>, <<"Active", "Const">>, const_demo)
\* #[autodiff_reverse(d_duplicated_demo, Duplicated, Active)]
d_duplicated_demo == Sig("rev", <<"x">>, <<"slice">>, <<"Duplicated">>, duplicated_demo)
\* #[autodiff_reverse(d_dot_product, Duplicated, Const, Active)]
d_dot_product == Sig("rev", <<"x", "w">>, <<"slice", "slice">>, <<"Duplicated", "Const">>, dot_product)
\* #[autodiff_reverse(d_branching, Active, Active)]
d_branching == Sig("rev", <<"x">>, <<"scalar">>, <<"Active">>, branching)
\* #[autodiff_reverse(d_power_loop, Active, Const, Active)]
d_power_loop == Sig("rev", <<"x", "n">>, <<"scalar", "scalar">>, <<"Active", "Const">>, power_loop)
\* #[autodiff_reverse(d_energy, Duplicated, Active)]
d_energy == Sig("rev", <<"controls">>, <<"array">>, <<"Duplicated">>, energy_cost)
\* #[autodiff_reverse(d_linear_loss, Const, Duplicated, Duplicated, Const, Active)]
d_linear_loss ==
    Sig("rev", <<"x", "weights", "bias", "target">>, <<"slice", "slice", "slice", "slice">>,
        <<"Const", "Duplicated", "Duplicated", "Const">>, linear_loss)

\* the same primal differentiated in the other mode (Dual <-> Active)
OtherMode(sig) ==
    [sig EXCEPT !.mode = IF @ = "fwd" THEN "rev" ELSE "fwd",
                !.act = [p \in DOMAIN @ |-> IF @[p] = "Dual" THEN "Active"
                                          ELSE IF @[p] = "Active" THEN "Dual" ELSE @[p]]]

Diffs ==
    {"d_square", "d_quadratic", "d_complex_mag_sq", "d_cubic", "d_cubic_rev", "d_multi_out",
     "d_active_demo", "d_active_demo_fwd", "d_const_demo", "d_duplicated_demo",
     "d_dot_product", "d_branching", "d_power_loop", "d_energy", "d_linear_loss",
     "d_mandelbrot_step", "d_l2_norm", "d_exp_approx",
     "d_infidelity", "d_rosenbrock"}

FnOf(name) ==
    CASE name = "d_square" -> d_square
      [] name = "d_quadratic" -> d_quadratic
      [] name = "d_complex_mag_sq" -> d_complex_mag_sq
      [] name = "d_cubic" -> d_cubic
      [] name = "d_cubic_rev" -> OtherMode(d_cubic)
      [] name = "d_multi_out" -> d_multi_out
      [] name = "d_active_demo" -> d_active_demo
      [] name = "d_active_demo_fwd" -> OtherMode(d_active_demo)
      [] name = "d_const_demo" -> d_const_demo
      [] name = "d_duplicated_demo" -> d_duplicated_demo
      [] name = "d_dot_product" -> d_dot_product
      [] name = "d_branching" -> d_branching
      [] name = "d_power_loop" -> d_power_loop
      [] name = "d_energy" -> d_energy
      [] name = "d_linear_loss" -> d_linear_loss
      [] name = "d_mandelbrot_step" -> d_mandelbrot_step
      [] name = "d_l2_norm" -> d_l2_norm
      [] name = "d_exp_approx" -> d_exp_approx
      [] name = "d_infidelity" -> d_infidelity
      [] name = "d_rosenbrock" -> d_rosenbrock
      [] name = "d_loss" -> d_loss

\* the table of the differentiated functions
Signature == [name \in Diffs \cup {"d_loss"} |-> FnOf(name)]
ModeOf(name) == Signature[name].mode
Activity(name) == Signature[name].act

----------------------------------------------------------------------------
(* The Taylor series of the quantum control example                        *)

\* while k < last { term *= -x * x / (d1 as f64 * d2 as f64); sum += term;
\* k += 1; } sum, with d1 = 2 * k - 1 + odd and d2 = 2 * k + odd
\* e, once the value v has been computed: statements run in program order
Then(v, e) == IF v = v THEN e ELSE e

RECURSIVE TaylorLoop(_, _, _, _, _, _)
\* sum += term; k += 1; and the iterations after it
TaylorNext(x, sum, term, k, odd, last) ==
    TaylorLoop(x, RAdd(sum, term), term, k + 1, odd, last)

TaylorLoop(x, sum, term, k, odd, last) ==
    Then(sum,
         IF k >= last THEN sum
         ELSE TaylorNext(x, sum,
                         RMul(term, RDiv(RMul(RNeg(x), x),
                                         RMul(R(2 * k - 1 + odd, 1), R(2 * k + odd, 1)))),
                         k, odd, last))

\* the bound of k in my_sin and my_cos
TaylorTerms == 25

\* fn my_sin(x: f64) -> f64: sum = x, term = x, k = 1, d1 = 2 * k, d2 = 2 * k + 1
my_sin(x) == TaylorLoop(ToF(x), ToF(x), ToF(x), 1, 1, TaylorTerms)

\* fn my_cos(x: f64) -> f64: sum = 1.0, term = 1.0, k = 1, d1 = 2 * k - 1, d2 = 2 * k
my_cos(x) == TaylorLoop(ToF(x), ToF(One), ToF(One), 1, 0, TaylorTerms)

\* the derivative of my_sin's polynomial, term by term: my_cos's polynomial
d_my_sin(x) == my_cos(x)

\* the derivative of my_cos's polynomial, term by term: minus my_sin's
\* polynomial without its last term
d_my_cos(x) == RNeg(TaylorLoop(ToF(x), ToF(x), ToF(x), 1, 1, TaylorTerms - 1))

----------------------------------------------------------------------------
(* Numeric kernel table: primal, tangent and adjoint rule per operation    *)

PrimalRule(op, va, vb) ==
    CASE op = "add" -> RAdd(va, vb)
      [] op = "sub" -> RSub(va, vb)
      [] op = "mul" -> RMul(va, vb)
      [] op = "div" -> RDiv(va, vb)
      [] op = "neg" -> RNeg(va)
      [] op = "load" -> va
      [] op = "store" -> va
      [] op = "my_sin" -> my_sin(va)
      [] op = "my_cos" -> my_cos(va)

\* output tangent from the input tangents ta, tb
TangentRule(op, va, vb, ta, tb) ==
    CASE op = "add" -> RAdd(ta, tb)
      [] op = "sub" -> RSub(ta, tb)
      [] op = "mul" -> RAdd(RMul(ta, vb), RMul(va, tb))
      [] op = "div" -> RDiv(RSub(RMul(ta, vb), RMul(va, tb)), RMul(vb, vb))
      [] op = "neg" -> RNeg(ta)
      [] op = "load" -> ta
      [] op = "store" -> ta
      [] op = "my_sin" -> RMul(d_my_sin(va), ta)
      [] op = "my_cos" -> RMul(d_my_cos(va), ta)

\* contributions <<to a, to b>> of an operation whose output adjoint is g,
\* from the primal inputs captured in the tape entry e
AdjointRule(e, g) ==
    CASE e.op = "add" -> <<g, g>>
      [] e.op = "sub" -> <<g, RNeg(g)>>
      [] e.op = "mul" -> <<RMul(g, e.vb), RMul(g, e.va)>>
      [] e.op = "div" -> <<RDiv(g, e.vb), RNeg(RDiv(RMul(g, e.va), RMul(e.vb, e.vb)))>>
      [] e.op = "neg" -> <<RNeg(g), Zero>>
      [] e.op = "load" -> <<g, Zero>>
      [] e.op = "store" -> <<g, Zero>>
      [] e.op = "my_sin" -> <<RMul(g, d_my_sin(e.va)), Zero>>
      [] e.op = "my_cos" -> <<RMul(g, d_my_cos(e.va)), Zero>>
      [] e.op = "cmp" -> <<Zero, Zero>>

----------------------------------------------------------------------------
(* One differentiation call                                                *)

CallIds == {1, 2}
BufIds == 1 .. 4

\* ops: the primitive operations executed so far
NoCall(phase) ==
    [name |-> "", mode |-> "", pact |-> <<>>, args |-> <<>>, seed |-> Zero, bufs |-> <<>>,
     phase |-> phase, err |-> "",
     pc |-> 0, env |-> <<>>, alen |-> <<>>, store |-> <<>>, act |-> <<>>, tan |-> <<>>,
     ops |-> 0, tape |-> <<>>, outs |-> <<>>, adj |-> <<>>, pos |-> 0, ret |-> <<>>]

\* a call of the differentiated function name, of mode and parameter
\* activities pact, before classification
NewCall(name, mode, pact, args, seed, bufs) ==
    [NoCall("classify") EXCEPT !.name = name, !.mode = mode, !.pact = pact, !.args = args,
                               !.seed = seed, !.bufs = bufs]

RECURSIVE Flatten(_)
Flatten(ss) == IF ss = <<>> THEN <<>> ELSE Head(ss) \o Flatten(Tail(ss))

\* value reference of the first element of parameter p
Base(args, p) == Len(Flatten(SubSeq(args, 1, p - 1))) + 1

\* parameter owning value reference r of the initial store
RECURSIVE ParamOf(_, _, _)
ParamOf(args, r, p) == IF r < Base(args, p) + Len(args[p]) THEN p ELSE ParamOf(args, r, p + 1)

Differentiable(a) == a \in {"Active", "Duplicated", "Dual"}

\* a validation that looks at the first parameter's buffer only
ShapeMismatch_mut(cs, sh) ==
    /\ cs.pact[1] = "Duplicated"
    /\ Len(sh[cs.bufs[1]]) # Len(cs.args[1])

\* Activity classifier and shadow buffer manager: shapes are validated
\* before any pass begins
ShapeMismatch(cs, sh) ==
    \E p \in DOMAIN cs.args :
        /\ cs.pact[p] = "Duplicated"
        /\ Len(sh[cs.bufs[p]]) # Len(cs.args[p])

\* params: the parameter names of the primal, in declaration order
ClassifyCall(cs, params, sh) ==
    IF ShapeMismatch(cs, sh)
    THEN [cs EXCEPT !.phase = "failed", !.err = "ShapeMismatch"]
    ELSE [cs EXCEPT
            !.phase = "primal",
            !.pc = 1,
            !.store = Flatten(cs.args),
            !.act = [r \in DOMAIN Flatten(cs.args) |->
                        Differentiable(cs.pact[ParamOf(cs.args, r, 1)])],
            !.tan = [r \in DOMAIN Flatten(cs.args) |->
                        IF cs.pact[ParamOf(cs.args, r, 1)] = "Dual" THEN cs.seed ELSE Zero],
            !.env = [v \in {params[p] : p \in DOMAIN params} |->
                        Base(cs.args, CHOOSE p \in DOMAIN params : params[p] = v)],
            !.alen = [v \in {params[p] : p \in DOMAIN params} |->
                        Len(cs.args[CHOOSE p \in DOMAIN params : params[p] = v])]]

\* a new value in the primal-value store, with its tangent and activity
PushVal(cs, v, t, a) ==
    [cs EXCEPT !.store = Append(@, v), !.tan = Append(@, t), !.act = Append(@, a)]

\* the state after producing operand o, and the operand's value reference
OperandState(cs, o) ==
    IF o.t = "var" THEN cs
    ELSE PushVal(cs, IF o.t = "lit" THEN o.n ELSE R(cs.alen[o.v], 1), Zero, FALSE)

OperandRef(cs, o) == IF o.t = "var" THEN cs.env[o.v] ELSE Len(cs.store) + 1

\* Tape recorder: one Operation per kernel invocation, in execution order
Record(cs, e) == IF cs.mode = "rev" THEN [cs EXCEPT !.tape = Append(@, e)] ELSE cs

\* the storage an operand is read from: a variable of the primal, or none
Loc(o) == IF o.t = "var" THEN o.v ELSE ""

\* a kernel invocation d = op(ra, rb), its operands read from the storage
\* na, nb; the Operation holds the value references, the primal values
\* captured now, and the primal output value
Produce(cs, e, d, tn) ==
    [Record(PushVal(cs, e.val, tn, cs.act[e.a] \/ cs.act[e.b]), e)
        EXCEPT !.env = (d :> e.out) @@ @, !.pc = @ + 1, !.ops = @ + 1]

Kernel(cs, op, d, ra, rb, na, nb) ==
    Produce(cs,
            [op |-> op, a |-> ra, b |-> rb, va |-> cs.store[ra], vb |-> cs.store[rb],
             out |-> Len(cs.store) + 1, val |-> PrimalRule(op, cs.store[ra], cs.store[rb]),
             na |-> na, nb |-> nb],
            d,
            IF cs.mode = "fwd"
            THEN TangentRule(op, cs.store[ra], cs.store[rb], cs.tan[ra], cs.tan[rb])
            ELSE Zero)

RECURSIVE OperandsState(_, _)
OperandsState(cs, rs) ==
    IF rs = <<>> THEN cs ELSE OperandsState(OperandState(cs, Head(rs)), Tail(rs))

RECURSIVE OperandsRefs(_, _)
OperandsRefs(cs, rs) ==
    IF rs = <<>> THEN <<>>
    ELSE <<OperandRef(cs, Head(rs))>> \o OperandsRefs(OperandState(cs, Head(rs)), Tail(rs))

\* return: reverse mode seeds the output adjoint and starts the replay at
\* the end of the tape; forward mode returns (primal, tangent)
Return(cs, rs) ==
    LET done == OperandsState(cs, rs)
        outs == OperandsRefs(cs, rs)
    IN  IF cs.mode = "rev"
        THEN [done EXCEPT
                !.phase = "replay",
                !.outs = outs,
                !.adj = [r \in DOMAIN done.store |-> IF r = outs[1] THEN cs.seed ELSE Zero],
                !.pos = Len(done.tape)]
        ELSE [done EXCEPT
                !.phase = "done",
                !.outs = outs,
                !.ret = << [i \in DOMAIN outs |-> done.store[outs[i]]],
                           [i \in DOMAIN outs |-> done.tan[outs[i]]] >>]

\* one instruction of the primal pass
ExecInstr(cs, ins) ==
    LET s1 == OperandState(cs, ins.a)
        ra == OperandRef(cs, ins.a)
        s2 == OperandState(s1, ins.b)
        rb == OperandRef(s1, ins.b)
    IN  CASE ins.k = "bin" -> Kernel(s2, ins.op, ins.d, ra, rb, Loc(ins.a), Loc(ins.b))
          [] ins.k = "neg" -> Kernel(s1, "neg", ins.d, ra, ra, Loc(ins.a), Loc(ins.a))
          [] ins.k = "call" -> Kernel(s1, ins.op, ins.d, ra, ra, Loc(ins.a), Loc(ins.a))
          [] ins.k = "load" ->
                LET i == s2.store[rb][1]
                IN  IF i < 0 \/ i >= cs.alen[ins.a.v]
                    THEN [cs EXCEPT !.phase = "panicked", !.err = "index out of bounds"]
                    ELSE Kernel(s2, "load", ins.d, ra + i, ra + i, "", "")
          [] ins.k = "mov" -> [s1 EXCEPT !.env = (ins.d :> ra) @@ @, !.pc = @ + 1]
          [] ins.k = "br" ->
                LET va == s2.store[ra]
                    vb == s2.store[rb]
                    holds == CASE ins.op = "lt" -> RLt(va, vb)
                               [] ins.op = "ge" -> RGe(va, vb)
                               [] ins.op = "eq" -> REq(va, vb)
                    e == [op |-> "cmp", a |-> ra, b |-> rb, va |-> va, vb |-> vb, out |-> 0,
                          val |-> IF holds THEN One ELSE Zero,
                          na |-> Loc(ins.a), nb |-> Loc(ins.b)]
                IN  [Record(s2, e) EXCEPT !.pc = IF holds THEN ins.t ELSE ins.f, !.ops = @ + 1]
          [] ins.k = "jmp" -> [cs EXCEPT !.pc = ins.t]
          [] ins.k = "ret" -> Return(cs, ins.rs)

\* Adjoint replayer: the tape entry at pos, then pos - 1
Accumulate(cs, adj, r, g) == IF cs.act[r] THEN [adj EXCEPT ![r] = RAdd(@, g)] ELSE adj

\* what the storage named n holds now; v where the operand had no storage
Current(cs, n, v) == IF n = "" THEN v ELSE cs.store[cs.env[n]]

\* a replay that reads the operands again from their storage
\* the contributions c of entry e added to the adjoints of its inputs
Contribute(cs, e, c) ==
    [cs EXCEPT !.adj = Accumulate(cs, Accumulate(cs, @, e.a, c[1]), e.b, c[2]),
               !.pos = @ - 1]

\* the output adjoint of entry e: none for a comparison
OutAdj(cs, e) == IF e.out = 0 THEN Zero ELSE cs.adj[e.out]

ReplayEntry_mut(cs) ==
    Contribute(cs, cs.tape[cs.pos],
               AdjointRule([cs.tape[cs.pos] EXCEPT !.va = Current(cs, cs.tape[cs.pos].na, @),
                                                  !.vb = Current(cs, cs.tape[cs.pos].nb, @)],
                           OutAdj(cs, cs.tape[cs.pos])))

ReplayEntry(cs) ==
    Contribute(cs, cs.tape[cs.pos], AdjointRule(cs.tape[cs.pos], OutAdj(cs, cs.tape[cs.pos])))

\* the gradient of Duplicated parameter p: the adjoints of its elements
Gradient(cs, p) == [i \in 1 .. Len(cs.args[p]) |-> cs.adj[Base(cs.args, p) + i - 1]]

\* a write that adds the gradient to the prior contents
WriteShadow_mut(old, grad) ==
    [i \in DOMAIN grad |-> IF i \in DOMAIN old THEN RAdd(old[i], grad[i]) ELSE grad[i]]

\* write of a shadow buffer: the prior contents are overwritten
WriteShadow(old, grad) == grad

FinishShadow(cs, sh) ==
    LET dup(b) == {p \in DOMAIN cs.pact : cs.pact[p] = "Duplicated" /\ cs.bufs[p] = b}
    IN  [b \in DOMAIN sh |->
            IF dup(b) = {} THEN sh[b]
            ELSE WriteShadow(sh[b], Gradient(cs, CHOOSE p \in dup(b) : TRUE))]

\* the returned tuple: the primal, then one derivative per Active parameter
RECURSIVE ActiveDerivs(_, _)
ActiveDerivs(cs, p) ==
    IF p > Len(cs.args) THEN <<>>
    ELSE (IF cs.pact[p] = "Active" THEN << <<cs.adj[Base(cs.args, p)]>> >> ELSE <<>>)
         \o ActiveDerivs(cs, p + 1)

FinishCall(cs) ==
    [cs EXCEPT !.phase = "done",
               !.ret = << [i \in DOMAIN cs.outs |-> cs.store[cs.outs[i]]] >> \o ActiveDerivs(cs, 1)]

----------------------------------------------------------------------------
(* The callers: inputs and shadow buffers of a call                        *)

Scalars == {R(n, 1) : n \in -MaxAbs .. MaxAbs}
Trips == {R(n, 1) : n \in 0 .. MaxN}
Elems == {R(-1, 1), R(3, 2)}
Seeds == {One, Half}
\* what a caller's buffer may hold before a call: [0.0; N], or older contents
Zeroed == Zero
Stale == R(7, 1)

Slices == UNION {[1 .. n -> Elems] : n \in 0 .. MaxLen}

\* let x = [1.0, 2.0, 3.0]; let w = [0.5, 1.5, 2.5];
main_x == <<R(1, 1), R(2, 1), R(3, 1)>>
main_w == <<R(1, 2), R(3, 2), R(5, 2)>>
\* let mut x = -1.0; let mut y = 1.0;
main_rosen_x == ToF(R(-1, 1))
main_rosen_y == ToF(R(1, 1))
\* let mut controls = [0.5, 0.3, 0.2, 0.1];
main_controls == <<R(1, 2), R(3, 10), R(1, 5), R(1, 10)>>
\* linear layer: x, weights, bias, target of main
main_lin_x == <<R(1, 1), R(2, 1)>>
main_lin_weights == <<R(1, 2), R(1, 2), R(1, 2), R(1, 2)>>
main_lin_bias == <<R(1, 10), R(1, 10)>>
main_lin_target == <<R(1, 1), R(2, 1)>>
\* let x = [3.0, 4.0];
main_norm_x == <<ToF(R(3, 1)), ToF(R(4, 1))>>
\* let z_re = 0.5; let z_im = 0.5; let c_re = -0.5; let c_im = 0.5;
main_z_c == << <<R(1, 2)>>, <<R(1, 2)>>, <<R(-1, 2)>>, <<R(1, 2)>> >>

Inputs(name) ==
    CASE name \in {"d_square", "d_cubic", "d_cubic_rev", "d_multi_out", "d_active_demo",
                   "d_active_demo_fwd", "d_branching"} ->
            {<< <<x>> >> : x \in Scalars}
      [] name \in {"d_quadratic", "d_complex_mag_sq", "d_const_demo"} ->
            {<< <<x>>, <<y>> >> : x \in Scalars, y \in Scalars}
      [] name = "d_power_loop" ->
            {<< <<x>>, <<n>> >> : x \in Scalars, n \in Trips}
      [] name = "d_duplicated_demo" ->
            {<<x>> : x \in Slices \cup {main_x}}
      [] name = "d_dot_product" ->
            {<<x, w>> : x \in Slices \cup {main_x}, w \in Slices \cup {main_w}}
      [] name = "d_energy" ->
            {<<x>> : x \in [1 .. N_STEPS -> Elems] \cup {main_controls}}
      [] name = "d_linear_loss" ->
            {<<main_lin_x, w, b, main_lin_target>> :
                w \in {main_lin_weights, [i \in 1 .. 4 |-> R(i - 2, 1)]},
                b \in [1 .. 2 -> Elems] \cup {main_lin_bias}}
      [] name = "d_rosenbrock" ->
            {<< <<x>>, <<y>> >> : x \in Scalars, y \in {One, R(-1, 1)}}
                \cup {<< <<main_rosen_x>>, <<main_rosen_y>> >>}
      [] name = "d_infidelity" ->
            {<<x>> : x \in {[i \in 1 .. N_STEPS |-> e] : e \in Elems \cup {Zero}}
                           \cup {main_controls}}
      [] name = "d_exp_approx" ->
            {<< <<x>> >> : x \in {ToF(y) : y \in Scalars \cup {R(MaxExpX, 1), R(-MaxExpX, 1)}}
                                 \cup {NaN}}
      [] name = "d_l2_norm" ->
            {<<x>> : x \in {main_norm_x} \cup
                           {y \in UNION {[1 .. n -> {Zero, R(2, 1)}] : n \in 0 .. MaxLen} :
                               Cardinality({i \in DOMAIN y : y[i] # Zero}) <= 1}}
      [] name = "d_mandelbrot_step" ->
            {main_z_c} \cup {<< <<z>>, <<R(1, 1)>>, <<c>>, <<R(-2, 1)>> >> :
                                z \in {R(-MaxAbs, 1), R(MaxAbs, 1)}, c \in Elems}

\* both call sites passing the same buffers
BufOf_mut(c, act, p) ==
    IF act[p] = "Duplicated"
    THEN Cardinality({q \in 1 .. p : act[q] = "Duplicated"})
    ELSE 0

\* the buffer a call passes for its parameter p (0: none): each call site
\* declares its own buffers (grad_infid, grad_energy; grad_weights, grad_bias)
BufOf(c, act, p) ==
    IF act[p] = "Duplicated"
    THEN 2 * (c - 1) + Cardinality({q \in 1 .. p : act[q] = "Duplicated"})
    ELSE 0

\* the lengths a caller may give its shadow buffers: an array type fixes
\* the length, a slice may be shorter or longer than its primal
ShadowLens(sig, args) ==
    {ls \in [DOMAIN args -> 0 .. 5] :
        \A p \in DOMAIN args :
            IF sig.act[p] = "Duplicated" /\ sig.shape[p] = "slice"
            THEN ls[p] - Len(args[p]) \in {-1, 0, 1}
            ELSE ls[p] = Len(args[p])}

\* let mut dx = [0.0; N]: the buffers bufs of a call get ls elements fill
InitShadow(sh, bufs, ls, fill) ==
    [b \in BufIds |->
        IF \E p \in DOMAIN bufs : bufs[p] = b
        THEN [i \in 1 .. ls[CHOOSE q \in DOMAIN bufs : bufs[q] = b] |-> fill]
        ELSE sh[b]]

----------------------------------------------------------------------------
(* Actions                                                                 *)

\* d_f(args..., &mut buffers..., seed)
Invoke(c, names) ==
    /\ calls[c].phase = "idle"
    /\ \E name \in names, seed \in Seeds, fill \in {Zeroed, Stale} :
         \E args \in Inputs(name) :
           \E ls \in ShadowLens(Signature[name], args) :
             LET bufs == [p \in DOMAIN args |-> BufOf(c, Activity(name), p)]
             IN  /\ calls' = [calls EXCEPT ![c] =
                                 NewCall(name, ModeOf(name), Activity(name), args, seed, bufs)]
                 /\ shadow' = InitShadow(shadow, bufs, ls, fill)
                 /\ pre' = [pre EXCEPT ![c] = InitShadow(shadow, bufs, ls, fill)]
    /\ round' = 1
    /\ clock' = [clock EXCEPT ![c] = 0]
    /\ UNCHANGED main

Classify(c) ==
    /\ calls[c].phase = "classify"
    /\ calls' = [calls EXCEPT ![c] = ClassifyCall(@, Signature[@.name].params, shadow)]
    /\ clock' = [clock EXCEPT ![c] = @ + 1]
    /\ UNCHANGED <<shadow, pre, round, main>>

Exec(c) ==
    /\ calls[c].phase = "primal"
    /\ calls' = [calls EXCEPT ![c] = ExecInstr(@, Signature[@.name].prog[@.pc])]
    /\ clock' = [clock EXCEPT ![c] = @ + 1]
    /\ UNCHANGED <<shadow, pre, round, main>>

Replay(c) ==
    /\ calls[c].phase = "replay"
    /\ calls[c].pos > 0
    /\ calls' = [calls EXCEPT ![c] = ReplayEntry(@)]
    /\ clock' = [clock EXCEPT ![c] = @ + 1]
    /\ UNCHANGED <<shadow, pre, round, main>>

Finish(c) ==
    /\ calls[c].phase = "replay"
    /\ calls[c].pos = 0
    /\ calls' = [calls EXCEPT ![c] = FinishCall(@)]
    /\ shadow' = FinishShadow(calls[c], shadow)
    /\ clock' = [clock EXCEPT ![c] = @ + 1]
    /\ UNCHANGED <<pre, round, main>>

NoShadow == [b \in BufIds |-> <<>>]

\* no caller is modelled beyond its one call
NoMain == [pc |-> "none"]

Ended(cs) == cs.phase \in {"done", "failed", "panicked"}

\* the same call again, on the same buffers, which the caller did not zero
Recall(c) ==
    /\ calls[c].phase = "done"
    /\ round < MaxCalls
    /\ \E p \in DOMAIN calls[c].bufs : calls[c].bufs[p] # 0
    /\ calls' = [calls EXCEPT ![c] = NewCall(@.name, @.mode, @.pact, @.args, @.seed, @.bufs)]
    /\ pre' = [pre EXCEPT ![c] = shadow]
    /\ round' = round + 1
    /\ clock' = [clock EXCEPT ![c] = 0]
    /\ UNCHANGED <<shadow, main>>

\* the caller drops the result and its buffers
Reset(c) ==
    /\ Ended(calls[c])
    /\ calls' = [calls EXCEPT ![c] = NoCall("idle")]
    /\ shadow' = [b \in BufIds |-> IF (b + 1) \div 2 = c THEN <<>> ELSE shadow[b]]
    /\ pre' = [pre EXCEPT ![c] = NoShadow]
    /\ round' = 0
    /\ clock' = [clock EXCEPT ![c] = 0]
    /\ UNCHANGED main

Init ==
    /\ calls = [c \in CallIds |-> IF c = 1 THEN NoCall("idle") ELSE NoCall("off")]
    /\ shadow = NoShadow
    /\ pre = [c \in CallIds |-> NoShadow]
    /\ round = 0
    /\ clock = [c \in CallIds |-> 0]
    /\ main = NoMain

Next ==
    \E c \in CallIds :
        \/ Invoke(c, Diffs)
        \/ Classify(c)
        \/ Exec(c)
        \/ Replay(c)
        \/ Finish(c)
        \/ Recall(c)
        \/ Reset(c)

Spec == Init /\ [][Next]_vars

----------------------------------------------------------------------------
(* Two calls on separate threads, over the same controls and each with its *)
(* own shadow buffer, their steps interleaved                              *)

\* the differentiated function each thread calls
ConcName(c) == IF c = 1 THEN "d_dot_product" ELSE "d_energy"

ConcArgs(c) ==
    {IF c = 1 THEN <<x, x>> ELSE <<x>> :
        x \in {[i \in 1 .. N_STEPS |-> e] : e \in Elems} \cup {main_controls}}

InvokeConc(c) ==
    /\ calls[c].phase = "idle"
    /\ \E args \in ConcArgs(c) :
         LET name == ConcName(c)
             bufs == [p \in DOMAIN args |-> BufOf(c, Activity(name), p)]
             ls == [p \in DOMAIN args |-> Len(args[p])]
         IN  /\ \A o \in CallIds : calls[o].phase # "idle" => calls[o].args[1] = args[1]
             /\ calls' = [calls EXCEPT ![c] =
                             NewCall(name, ModeOf(name), Activity(name), args, One, bufs)]
             /\ shadow' = InitShadow(shadow, bufs, ls, Zeroed)
             /\ pre' = [pre EXCEPT ![c] = InitShadow(shadow, bufs, ls, Zeroed)]
    /\ clock' = [clock EXCEPT ![c] = 0]
    /\ UNCHANGED <<round, main>>

InitConc ==
    /\ calls = [c \in CallIds |-> NoCall("idle")]
    /\ shadow = NoShadow
    /\ pre = [c \in CallIds |-> NoShadow]
    /\ round = 0
    /\ clock = [c \in CallIds |-> 0]
    /\ main = NoMain

NextConc ==
    \E c \in CallIds :
        \/ InvokeConc(c)
        \/ Classify(c)
        \/ Exec(c)
        \/ Replay(c)
        \/ Finish(c)

SpecConc == InitConc /\ [][NextConc]_vars

\* let (_y, dy) = d_cubic(x, 1.0);
main_dy(ret) == ret[2]
\* let ((dy1, dy2), _) = d_multi_out(x, 1.0);
main_dy1_dy2(ret) == ret[1]

----------------------------------------------------------------------------
(* A call run alone from classification to its end: the final call state  *)
(* and shadow buffers                                                      *)

RECURSIVE RunCall(_, _)
RunCall(cs, sh) ==
    CASE cs.phase = "classify" -> RunCall(ClassifyCall(cs, Signature[cs.name].params, sh), sh)
      [] cs.phase = "primal" -> RunCall(ExecInstr(cs, Signature[cs.name].prog[cs.pc]), sh)
      [] cs.phase = "replay" /\ cs.pos > 0 -> RunCall(ReplayEntry(cs), sh)
      [] cs.phase = "replay" /\ cs.pos = 0 -> [cs |-> FinishCall(cs), sh |-> FinishShadow(cs, sh)]
      [] OTHER -> [cs |-> cs, sh |-> sh]

\* the scalar argument p of a call, and the call's returned tuple as scalars
Arg(cs, p) == cs.args[p][1]
Two == R(2, 1)
Three == R(3, 1)
Sq(x) == RMul(x, x)
Done(c, name) == calls[c].phase = "done" /\ calls[c].name = name

----------------------------------------------------------------------------
(* C1: for a polynomial primal, the reverse-mode call with seed 1.0        *)
(* returns the primal value followed by the exact analytic partial         *)
(* derivatives: d_square(x, 1.0) = (x*x, 2x), d_quadratic(x, y, 1.0) =     *)
(* (x*x + x*y + y*y, 2x + y, x + 2y), d_complex_mag_sq(re, im, 1.0) =      *)
(* (re*re + im*im, 2re, 2im), for every x, y.                              *)
C1_PolynomialExact ==
    \A c \in CallIds :
        LET cs == calls[c]
            x == Arg(cs, 1)
            y == Arg(cs, 2)
        IN  cs.seed = One =>
              /\ Done(c, "d_square") =>
                    cs.ret = << <<Sq(x)>>, <<RMul(Two, x)>> >>
              /\ Done(c, "d_quadratic") =>
                    cs.ret = << <<RAdd(RAdd(Sq(x), RMul(x, y)), Sq(y))>>,
                                <<RAdd(RMul(Two, x), y)>>,
                                <<RAdd(x, RMul(Two, y))>> >>
              /\ Done(c, "d_complex_mag_sq") =>
                    cs.ret = << <<RAdd(Sq(x), Sq(y))>>, <<RMul(Two, x)>>, <<RMul(Two, y)>> >>

\* d_quadratic(2.0, 3.0, 1.0) has returned (19, 7, 8)
C1_Witness ==
    /\ Done(1, "d_quadratic")
    /\ calls[1].seed = One
    /\ calls[1].args = << <<R(2, 1)>>, <<R(3, 1)>> >>
    /\ calls[1].ret = << <<R(19, 1)>>, <<R(7, 1)>>, <<R(8, 1)>> >>

----------------------------------------------------------------------------
\* the same primal and inputs differentiated in the other mode, run alone
OtherName(name) ==
    CASE name = "d_cubic" -> "d_cubic_rev"
      [] name = "d_cubic_rev" -> "d_cubic"
      [] name = "d_active_demo" -> "d_active_demo_fwd"
      [] name = "d_active_demo_fwd" -> "d_active_demo"

InOtherMode(cs) ==
    RunCall(NewCall(OtherName(cs.name), ModeOf(OtherName(cs.name)),
                    Activity(OtherName(cs.name)), cs.args, cs.seed, cs.bufs), NoShadow).cs

(* C2: for a single-input, single-output function, forward mode with       *)
(* tangent seed 1.0 and reverse mode with seed 1.0 return the same         *)
(* derivative at every input x: 3x*x + 2 for f(x) = x*x*x + 2x (cubic),    *)
(* 3x*x for f(x) = x*x*x (active_demo).                                    *)
C2_ForwardReverseAgree ==
    \A c \in CallIds :
        LET cs == calls[c]
            x == Arg(cs, 1)
        IN  cs.phase = "done" /\ cs.seed = One =>
              /\ cs.name \in {"d_cubic", "d_cubic_rev"} =>
                    /\ main_dy(cs.ret) = <<RAdd(RMul(Three, Sq(x)), Two)>>
                    /\ main_dy(cs.ret) = main_dy(InOtherMode(cs).ret)
              /\ cs.name \in {"d_active_demo", "d_active_demo_fwd"} =>
                    /\ main_dy(cs.ret) = <<RMul(Three, Sq(x))>>
                    /\ main_dy(cs.ret) = main_dy(InOtherMode(cs).ret)

\* forward-mode d_cubic(2.0, 1.0) has returned the tangent 14
C2_Witness ==
    /\ Done(1, "d_cubic")
    /\ calls[1].mode = "fwd"
    /\ calls[1].seed = One
    /\ calls[1].args = << <<R(2, 1)>> >>
    /\ main_dy(calls[1].ret) = <<R(14, 1)>>
    /\ main_dy(InOtherMode(calls[1]).ret) = <<R(14, 1)>>

----------------------------------------------------------------------------
\* the opcodes on a tape, in recording order
Ops(tape) == [i \in DOMAIN tape |-> tape[i].op]

(* C3: differentiating branching(x) returns the derivative of the branch   *)
(* the primal comparison selects and nothing from the other branch:        *)
(* (x*x, 2x) with one multiplication on the tape when x >= 0 (also at      *)
(* x = 0), (-(x*x), -2x) with the multiplication and the negation when     *)
(* x < 0; so (-4, 4) at -2, (9, 6) at 3, (0, 0) at 0.                      *)
C3_BranchFidelity ==
    \A c \in CallIds :
        LET cs == calls[c]
            x == Arg(cs, 1)
        IN  Done(c, "d_branching") /\ cs.seed = One =>
              IF RGe(x, Zero)
              THEN /\ cs.ret = << <<Sq(x)>>, <<RMul(Two, x)>> >>
                   /\ Ops(cs.tape) = <<"cmp", "mul">>
              ELSE /\ cs.ret = << <<RNeg(Sq(x))>>, <<RNeg(RMul(Two, x))>> >>
                   /\ Ops(cs.tape) = <<"cmp", "mul", "neg">>

\* d_branching(-2.0, 1.0) has returned (-4, 4)
C3_Witness ==
    /\ Done(1, "d_branching")
    /\ calls[1].seed = One
    /\ calls[1].args = << <<R(-2, 1)>> >>
    /\ calls[1].ret = << <<R(-4, 1)>>, <<R(4, 1)>> >>

----------------------------------------------------------------------------
Zeros(n) == [i \in 1 .. n |-> Zero]

(* C4: for dot_product(x, w) with x Duplicated and w Const, after one call *)
(* d_dot_product(&x, &mut dx, &w, 1.0) on a zero-initialised dx,           *)
(* dx[i] = w[i] for every index i, for equal-length x and w.               *)
C4_DotGradientIsW ==
    \A c \in CallIds :
        LET cs == calls[c]
        IN  /\ Done(c, "d_dot_product")
            /\ cs.seed = One
            /\ Len(cs.args[1]) = Len(cs.args[2])
            /\ pre[c][cs.bufs[1]] = Zeros(Len(cs.args[1]))
            => /\ Len(shadow[cs.bufs[1]]) = Len(cs.args[1])
               /\ \A i \in DOMAIN cs.args[1] : shadow[cs.bufs[1]][i] = cs.args[2][i]

\* d_dot_product on x = [1, 2, 3], w = [0.5, 1.5, 2.5] has left [0.5, 1.5, 2.5] in dx
C4_Witness ==
    /\ Done(1, "d_dot_product")
    /\ calls[1].seed = One
    /\ calls[1].args = <<main_x, main_w>>
    /\ pre[1][calls[1].bufs[1]] = Zeros(3)
    /\ shadow[calls[1].bufs[1]] = <<R(1, 2), R(3, 2), R(5, 2)>>

----------------------------------------------------------------------------
(* C5: one forward-mode call d_multi_out(x, 1.0) on multi_output(x) =      *)
(* (x*x, x*x*x) produces both output tangents, and the pair the example    *)
(* binds as (dy1, dy2) from the first element of the returned tuple equals *)
(* (2x, 3x*x).                                                             *)
C5_BoundPairIsTangents ==
    \A c \in CallIds :
        LET cs == calls[c]
            x == Arg(cs, 1)
        IN  Done(c, "d_multi_out") /\ cs.seed = One =>
              main_dy1_dy2(cs.ret) = <<RMul(Two, x), RMul(Three, Sq(x))>>

----------------------------------------------------------------------------
RECURSIVE RPow(_, _)
RPow(x, n) == IF n = 0 THEN One ELSE RMul(x, RPow(x, n - 1))

(* C6: d_power_loop(x, n, 1.0) returns (x^n, n * x^(n-1)) for every trip   *)
(* count n in 0 .. MaxN; for n = 0 the loop body never runs and the        *)
(* result is (1, 0).                                                       *)
C6_PowerLoop ==
    \A c \in CallIds :
        LET cs == calls[c]
            x == Arg(cs, 1)
            n == Arg(cs, 2)[1]
        IN  Done(c, "d_power_loop") /\ cs.seed = One =>
              cs.ret = << <<RPow(x, n)>>,
                          <<IF n = 0 THEN Zero ELSE RMul(R(n, 1), RPow(x, n - 1))>> >>

\* d_power_loop(2.0, 4, 1.0) has returned (16, 32)
C6_Witness ==
    /\ Done(1, "d_power_loop")
    /\ calls[1].seed = One
    /\ calls[1].args = << <<R(2, 1)>>, <<R(4, 1)>> >>
    /\ calls[1].ret = << <<R(16, 1)>>, <<R(32, 1)>> >>

----------------------------------------------------------------------------
Duplicateds(cs) == {p \in DOMAIN cs.pact : cs.pact[p] = "Duplicated"}

\* the buffers of a call, zeroed by the caller, of the primal's lengths
ZeroedFor(cs) ==
    [b \in BufIds |->
        IF \E p \in Duplicateds(cs) : cs.bufs[p] = b
        THEN Zeros(Len(cs.args[CHOOSE p \in Duplicateds(cs) : cs.bufs[p] = b]))
        ELSE <<>>]

\* the call of cs made once, alone, on zeroed buffers
OnZeroed(cs) ==
    RunCall(NewCall(cs.name, cs.mode, cs.pact, cs.args, cs.seed, cs.bufs), ZeroedFor(cs))

(* C7: after a reverse-mode call the shadow buffer of a Duplicated         *)
(* parameter holds exactly the sensitivities accumulated in that call,     *)
(* whatever it held before (overwrite, not add): also after a second call  *)
(* with the same inputs on the same, not re-zeroed, buffer, the buffer     *)
(* equals what one call on a zeroed buffer leaves.                         *)
C7_Overwrite ==
    \A c \in CallIds :
        LET cs == calls[c]
        IN  cs.phase = "done" /\ cs.mode = "rev" =>
              \A p \in Duplicateds(cs) :
                  /\ shadow[cs.bufs[p]] = Gradient(cs, p)
                  /\ shadow[cs.bufs[p]] = OnZeroed(cs).sh[cs.bufs[p]]

\* the second d_energy call on main's controls has ended, on the buffer
\* that held the first call's gradient 2 * controls, and left 2 * controls
C7_Witness ==
    /\ Done(1, "d_energy")
    /\ round = 2
    /\ calls[1].seed = One
    /\ calls[1].args = <<main_controls>>
    /\ pre[1][1] = <<R(1, 1), R(3, 5), R(2, 5), R(1, 5)>>
    /\ shadow[1] = <<R(1, 1), R(3, 5), R(2, 5), R(1, 5)>>

----------------------------------------------------------------------------
\* a shadow buffer of the call differed in length from its primal when
\* the call began
Mismatched(c) ==
    \E p \in Duplicateds(calls[c]) :
        Len(pre[c][calls[c].bufs[p]]) # Len(calls[c].args[p])

(* C8: when a shadow buffer's length differs from the length of its        *)
(* paired Duplicated primal array the call fails with ShapeMismatch before *)
(* the primal pass or the replay starts (nothing recorded, no adjoint, no  *)
(* result), and every shadow buffer holds what it held before the call;    *)
(* a call fails this way in no other case.                                 *)
C8_ShapeMismatchFailsFast ==
    \A c \in CallIds :
        LET cs == calls[c]
        IN  /\ cs.phase \in {"primal", "replay", "done", "failed", "panicked"} /\ Mismatched(c) =>
                /\ cs.phase = "failed"
                /\ cs.err = "ShapeMismatch"
                /\ cs.pc = 0 /\ cs.store = <<>> /\ cs.tape = <<>>
                /\ cs.adj = <<>> /\ cs.ret = <<>>
                /\ \A b \in BufIds : shadow[b] = pre[c][b]
            /\ cs.phase = "failed" => Mismatched(c)

\* d_linear_loss has failed on a bias buffer of 3 elements holding older
\* contents, the weights buffer matching, and both buffers hold what they held
C8_Witness ==
    /\ calls[1].phase = "failed"
    /\ calls[1].name = "d_linear_loss"
    /\ calls[1].err = "ShapeMismatch"
    /\ pre[1][1] = [i \in 1 .. 4 |-> Stale]
    /\ pre[1][2] = [i \in 1 .. 3 |-> Stale]
    /\ shadow = pre[1]

----------------------------------------------------------------------------
RECURSIVE SumSq(_)
SumSq(xs) == IF xs = <<>> THEN Zero ELSE RAdd(Sq(Head(xs)), SumSq(Tail(xs)))

Actives(cs) == {p \in DOMAIN cs.pact : cs.pact[p] = "Active"}

(* C9: the tuple a reverse-mode function returns holds the primal value    *)
(* followed by exactly one derivative per Active input parameter, in       *)
(* parameter order; a Const parameter gets no slot (and no adjoint), a     *)
(* Duplicated parameter's derivative is delivered through its shadow       *)
(* buffer only: d_const_demo(x, scale, 1.0) returns the pair               *)
(* (scale*x*x, 2*scale*x), d_duplicated_demo returns the primal alone.     *)
C9_ReturnTuple ==
    \A c \in CallIds :
        LET cs == calls[c]
        IN  cs.phase = "done" /\ cs.mode = "rev" =>
              /\ Len(cs.ret) = 1 + Cardinality(Actives(cs))
              /\ \A p \in DOMAIN cs.pact :
                    cs.pact[p] = "Const" =>
                        \A i \in DOMAIN cs.args[p] : cs.adj[Base(cs.args, p) + i - 1] = Zero
              /\ cs.name = "d_const_demo" /\ cs.seed = One =>
                    cs.ret = << <<RMul(Arg(cs, 2), Sq(Arg(cs, 1)))>>,
                                <<RMul(Two, RMul(Arg(cs, 2), Arg(cs, 1)))>> >>
              /\ cs.name = "d_duplicated_demo" /\ cs.seed = One =>
                    /\ cs.ret = << <<SumSq(cs.args[1])>> >>
                    /\ shadow[cs.bufs[1]] = [i \in DOMAIN cs.args[1] |-> RMul(Two, cs.args[1][i])]

\* d_const_demo(2.0, 3.0, 1.0) has returned the pair (12, 12)
C9_Witness ==
    /\ Done(1, "d_const_demo")
    /\ calls[1].seed = One
    /\ calls[1].args = << <<R(2, 1)>>, <<R(3, 1)>> >>
    /\ calls[1].ret = << <<R(12, 1)>>, <<R(12, 1)>> >>

----------------------------------------------------------------------------
\* the buffers call c passed
Own(c) == {calls[c].bufs[p] : p \in Duplicateds(calls[c])}

\* the shadow buffers with only those of call c, the others blanked
OwnOnly(sh, c) == [b \in BufIds |-> IF b \in Own(c) THEN sh[b] ELSE <<>>]

\* the call of cs from its start
Again(cs) == NewCall(cs.name, cs.mode, cs.pact, cs.args, cs.seed, cs.bufs)

\* each call's buffers as they were when that call began
AtStart == [b \in BufIds |-> IF b \in Own(1) THEN pre[1][b] ELSE pre[2][b]]

\* the two calls run one after the other, first a then b: the final
\* buffers and the two returned tuples
OneAfterTheOther(a, b) ==
    LET ra == RunCall(Again(calls[a]), AtStart)
        rb == RunCall(Again(calls[b]), ra.sh)
    IN  [sh |-> rb.sh, ret |-> (a :> ra.cs.ret) @@ (b :> rb.cs.ret)]

\* what the two concurrent calls have returned and left in the buffers
Concurrently == [sh |-> shadow, ret |-> [c \in CallIds |-> calls[c].ret]]

\* the state of a call after one step taken from cs with the buffers sh
StepOf(cs, sh) ==
    CASE cs.phase = "classify" -> ClassifyCall(cs, Signature[cs.name].params, sh)
      [] cs.phase = "primal" -> ExecInstr(cs, Signature[cs.name].prog[cs.pc])
      [] cs.phase = "replay" /\ cs.pos > 0 -> ReplayEntry(cs)
      [] cs.phase = "replay" /\ cs.pos = 0 -> FinishCall(cs)
      [] OTHER -> cs

C10_Results ==
    /\ \A c \in CallIds :
          calls[c].phase = "done" =>
              /\ calls[c].ret = RunCall(Again(calls[c]), OwnOnly(pre[c], c)).cs.ret
              /\ \A b \in Own(c) :
                    shadow[b] = RunCall(Again(calls[c]), OwnOnly(pre[c], c)).sh[b]
    /\ (\A c \in CallIds : calls[c].phase = "done") =>
          /\ Concurrently = OneAfterTheOther(1, 2)
          /\ Concurrently = OneAfterTheOther(2, 1)

C10_Step ==
    \A c \in CallIds :
        calls[c].phase # "idle" /\ calls'[c] # calls[c] =>
            /\ calls'[c] = StepOf(calls[c], OwnOnly(shadow, c))
            /\ \A o \in CallIds \ {c} : calls'[o] = calls[o]
            /\ \A b \in BufIds \ Own(c) : shadow'[b] = shadow[b]

----------------------------------------------------------------------------
\* the operations power_loop(x, n) executes, in order: the loop test, then
\* per iteration entered the multiplication, i += 1 and the loop test
RECURSIVE PowerTrace(_)
PowerTrace(n) == IF n = 0 THEN <<"cmp">> ELSE PowerTrace(n - 1) \o <<"mul", "add", "cmp">>

\* the operations branching(x) executes: the test and the branch taken
BranchTrace(x) == IF RGe(x, Zero) THEN <<"cmp", "mul">> ELSE <<"cmp", "mul", "neg">>

\* the entries of a tape with opcode op
Count(tape, op) == Cardinality({i \in DOMAIN tape : tape[i].op = op})

\* the first n elements of a sequence
Prefix(seq, n) == SubSeq(seq, 1, n)

(* C13: at every point of a reverse-mode primal pass, and when it has      *)
(* completed, the tape length equals the number of primitive operations    *)
(* executed so far on the path taken: the tape of power_loop(x, n) is a    *)
(* prefix of, and at the end equals, the test followed by n times          *)
(* (multiplication, increment, test), so exactly n multiplications; the    *)
(* tape of branching(x) holds the test and the operations of the branch    *)
(* taken only.                                                             *)
C13_TapeLength ==
    \A c \in CallIds :
        LET cs == calls[c]
        IN  cs.mode = "rev" /\ cs.phase \in {"primal", "replay", "done"} =>
              /\ Len(cs.tape) = cs.ops
              /\ cs.name = "d_power_loop" =>
                    /\ Len(cs.tape) <= Len(PowerTrace(Arg(cs, 2)[1]))
                    /\ Ops(cs.tape) = Prefix(PowerTrace(Arg(cs, 2)[1]), Len(cs.tape))
                    /\ cs.phase # "primal" =>
                          /\ Ops(cs.tape) = PowerTrace(Arg(cs, 2)[1])
                          /\ Count(cs.tape, "mul") = Arg(cs, 2)[1]
              /\ cs.name = "d_branching" =>
                    /\ Len(cs.tape) <= Len(BranchTrace(Arg(cs, 1)))
                    /\ Ops(cs.tape) = Prefix(BranchTrace(Arg(cs, 1)), Len(cs.tape))
                    /\ cs.phase # "primal" => Ops(cs.tape) = BranchTrace(Arg(cs, 1))

\* the primal pass of d_power_loop(2.0, 3, 1.0) has completed with 10
\* operations executed and recorded, 3 of them multiplications
C13_Witness ==
    /\ calls[1].name = "d_power_loop"
    /\ calls[1].phase = "replay"
    /\ calls[1].args = << <<R(2, 1)>>, <<R(3, 1)>> >>
    /\ calls[1].ops = 10
    /\ Len(calls[1].tape) = 10
    /\ Count(calls[1].tape, "mul") = 3

----------------------------------------------------------------------------
\* the tape entries that consumed value r, and the operand slots reading it
Consumers(cs, r) == {j \in DOMAIN cs.tape : cs.tape[j].a = r \/ cs.tape[j].b = r}
Uses(cs, r) ==
    Cardinality({j \in DOMAIN cs.tape : cs.tape[j].a = r})
    + Cardinality({j \in DOMAIN cs.tape : cs.tape[j].b = r})

\* the sensitivity of value r over the entries recorded after position k:
\* the seed if r is the output, plus, for every such entry that consumed r,
\* its local partial derivative times the sensitivity of its own output
RECURSIVE Sens(_, _, _)
Sens(cs, r, k) ==
    IF k >= Len(cs.tape)
    THEN IF r = cs.outs[1] THEN cs.seed ELSE Zero
    ELSE LET e == cs.tape[k + 1]
             later == Sens(cs, r, k + 1)
         IN  IF ~cs.act[r] \/ (e.a # r /\ e.b # r) THEN later
             ELSE LET g == IF e.out = 0 THEN Zero ELSE Sens(cs, e.out, k + 1)
                      c == AdjointRule(e, g)
                      w == IF e.a = r THEN RAdd(later, c[1]) ELSE later
                  IN  IF e.b = r THEN RAdd(w, c[2]) ELSE w

\* |z * z + c|^2 and its four partial derivatives
MandelbrotGradient(zr, zi, cr, ci) ==
    LET nr == RAdd(RSub(Sq(zr), Sq(zi)), cr)
        ni == RAdd(RMul(Two, RMul(zr, zi)), ci)
    IN  << <<RAdd(Sq(nr), Sq(ni))>>,
           <<RMul(R(4, 1), RAdd(RMul(nr, zr), RMul(ni, zi)))>>,
           <<RMul(R(4, 1), RSub(RMul(ni, zr), RMul(nr, zi)))>>,
           <<RMul(Two, nr)>>,
           <<RMul(Two, ni)>> >>

C14_Accumulated ==
    \A c \in CallIds :
        LET cs == calls[c]
        IN  cs.name \in {"d_quadratic", "d_mandelbrot_step"} /\ cs.phase \in {"replay", "done"} =>
              /\ \A r \in DOMAIN cs.adj : cs.adj[r] = Sens(cs, r, cs.pos)
              /\ cs.pos > 0 =>
                    \A j \in Consumers(cs, cs.tape[cs.pos].out) : j > cs.pos
              /\ cs.phase = "done" /\ cs.seed = One /\ cs.name = "d_quadratic" =>
                    /\ Uses(cs, 1) = 3
                    /\ cs.adj[1] = RAdd(RAdd(Arg(cs, 1), Arg(cs, 1)), Arg(cs, 2))
                    /\ Uses(cs, 2) = 3
                    /\ cs.adj[2] = RAdd(RAdd(Arg(cs, 2), Arg(cs, 2)), Arg(cs, 1))
                    /\ cs.ret[2] = <<cs.adj[1]>> /\ cs.ret[3] = <<cs.adj[2]>>
              /\ cs.phase = "done" /\ cs.seed = One /\ cs.name = "d_mandelbrot_step" =>
                    cs.ret = MandelbrotGradient(Arg(cs, 1), Arg(cs, 2), Arg(cs, 3), Arg(cs, 4))

C14_Step ==
    \A c \in CallIds :
        /\ calls[c].phase = "primal" /\ calls'[c].phase = "replay" =>
              calls'[c].pos = Len(calls'[c].tape)
        /\ calls[c].phase = "replay" /\ calls'[c] # calls[c] =>
              IF calls[c].pos > 0
              THEN /\ calls'[c].phase = "replay"
                   /\ calls'[c].pos = calls[c].pos - 1
                   /\ calls'[c].tape = calls[c].tape
                   /\ calls'[c].store = calls[c].store
              ELSE calls'[c].phase = "done"

(* C14: the replayer visits the tape entries in strict reverse order of    *)
(* recording, each exactly once (the position starts at the tape's length  *)
(* and goes down by one per entry to 0, the tape unchanged); when it       *)
(* processes an entry, every consumer of that entry's output has been      *)
(* replayed and the output's adjoint is the sum of their contributions;    *)
(* the final adjoint of x in x*x + x*y + y*y is the sum over its three     *)
(* uses, x + x + y, and d_mandelbrot_step returns the sums of the          *)
(* contributions of z_re, z_im, c_re, c_im.                                *)
C14_ReverseReplay == []C14_Accumulated /\ [][C14_Step]_vars

\* d_mandelbrot_step(0.5, 0.5, -0.5, 0.5, 1.0) has replayed its 11 entries
\* and returned (1.25, 1, 3, -1, 2)
C14_Witness ==
    /\ Done(1, "d_mandelbrot_step")
    /\ calls[1].seed = One
    /\ calls[1].args = main_z_c
    /\ Len(calls[1].tape) = 11
    /\ calls[1].pos = 0
    /\ Uses(calls[1], 1) = 4
    /\ calls[1].ret = << <<R(5, 4)>>, <<R(1, 1)>>, <<R(3, 1)>>, <<R(-1, 1)>>, <<R(2, 1)>> >>

----------------------------------------------------------------------------
\* the operations l2_norm executes on n elements whose squares sum to 0:
\* the summation loop, sum / 2.0 and the test guess == 0.0
RECURSIVE SumTrace(_)
SumTrace(n) ==
    IF n = 0 THEN <<"cmp">>
    ELSE SumTrace(n - 1) \o <<"load", "load", "mul", "add", "add", "cmp">>

EarlyReturnTrace(n) == SumTrace(n) \o <<"div", "cmp">>

\* the Newton loop: 10 times (test, sum / guess, +, / 2.0, j += 1), and the
\* test that ends it
NewtonOps == 10 * 5 + 1

(* C16: an early return ends the tape at the return point: l2_norm on an   *)
(* input whose sum of squares is 0 returns 0.0 with the tape holding the   *)
(* summation loop, sum / 2.0 and the test guess == 0.0 and nothing of the  *)
(* Newton loop, and the reverse pass writes 0 to every element of the      *)
(* shadow buffer, whatever it held; on any other input the 10 Newton steps *)
(* are on the tape.                                                        *)
C16_EarlyReturn ==
    \A c \in CallIds :
        LET cs == calls[c]
            n == Len(cs.args[1])
        IN  cs.name = "d_l2_norm" /\ cs.phase \in {"replay", "done"} =>
              IF REq(SumSq(cs.args[1]), Zero)
              THEN /\ Ops(cs.tape) = EarlyReturnTrace(n)
                   /\ cs.tape[Len(cs.tape)].val = One
                   /\ cs.ops = Len(cs.tape)
                   /\ cs.store[cs.outs[1]] = Zero
                   /\ cs.phase = "done" =>
                        /\ cs.ret = << <<Zero>> >>
                        /\ shadow[cs.bufs[1]] = Zeros(n)
              ELSE /\ Len(cs.tape) = Len(EarlyReturnTrace(n)) + NewtonOps
                   /\ Prefix(Ops(cs.tape), Len(EarlyReturnTrace(n))) = EarlyReturnTrace(n)
                   /\ Count(cs.tape, "div") = 1 + 2 * 10

\* d_l2_norm on [0.0, 0.0] has returned 0.0 after 15 operations and left
\* [0.0, 0.0] in a buffer that held older contents
C16_Witness ==
    /\ Done(1, "d_l2_norm")
    /\ calls[1].args = << <<Zero, Zero>> >>
    /\ pre[1][1] = <<Stale, Stale>>
    /\ Len(calls[1].tape) = 15
    /\ calls[1].ret = << <<Zero>> >>
    /\ shadow[1] = <<Zero, Zero>>


----------------------------------------------------------------------------
(* exp_approx: a data-dependent loop under reverse mode                    *)

\* let (val, grad) = d_exp_approx(1.0, 1.0)
main_exp_x == ToF(R(1, 1))

\* a call that has been made and has not returned
Running(cs) == cs.phase \in {"classify", "primal", "replay"}

\* the running call takes its next step: a call is synchronous end to end,
\* nothing suspends it
Tick == \E c \in CallIds : Running(calls[c]) /\ clock' = [clock EXCEPT ![c] = @ + 1]

NextExp ==
    \E c \in CallIds :
        \/ Invoke(c, {"d_exp_approx"})
        \/ Classify(c)
        \/ Exec(c)
        \/ Replay(c)
        \/ Finish(c)
        \/ Reset(c)

SpecExp == Init /\ [][NextExp]_vars /\ WF_clock(Tick)

\* the iterations of the while loop a call has entered: one term *= per iteration
Iterations(cs) == Count(cs.tape, "mul")

\* the most the loop can run: k goes from 1 and the loop needs k < 100
MaxIterations == 100 - 1

\* the operations one iteration records at most: the three tests, the
\* negation of a negative term, the division, term *=, sum += and k += 1
IterationOps == 8

\* |x| of a call of d_exp_approx
AbsX(cs) == IF RLt(Arg(cs, 1), Zero) THEN RNeg(Arg(cs, 1)) ELSE Arg(cs, 1)

C17_Bounded ==
    \A c \in CallIds :
        LET cs == calls[c]
        IN  cs.name = "d_exp_approx" =>
              /\ cs.phase \notin {"failed", "panicked"}
              /\ cs.err = ""
              /\ Iterations(cs) <= MaxIterations
              /\ "k" \in DOMAIN cs.env =>
                    /\ RGe(cs.store[cs.env["k"]], One)
                    /\ ~RLt(R(MaxIterations + 1, 1), cs.store[cs.env["k"]])
              /\ Len(cs.tape) <= IterationOps * MaxIterations + 2
              /\ cs.phase \in {"replay", "done"} =>
                    /\ cs.pos \in 0 .. Len(cs.tape)
                    /\ Len(cs.tape) = cs.ops
              /\ cs.phase = "done" =>
                    /\ cs.pos = 0
                    /\ Len(cs.ret) = 2
                    /\ REq(Arg(cs, 1), Zero) => Iterations(cs) = 1
                    /\ REq(Arg(cs, 1), main_exp_x) =>
                          Iterations(cs) \in 2 .. MaxIterations - 1
                    /\ REq(AbsX(cs), R(MaxExpX, 1)) =>
                          /\ Iterations(cs) = MaxIterations
                          /\ cs.store[cs.env["k"]] = R(MaxIterations + 1, 1)

\* a step of the replay of d_exp_approx consumes one entry of an unchanged tape
C17_Consume ==
    \A c \in CallIds :
        calls[c].name = "d_exp_approx" /\ calls[c].phase = "replay" /\ calls'[c] # calls[c] =>
            IF calls[c].pos > 0
            THEN /\ calls'[c].phase = "replay"
                 /\ calls'[c].pos = calls[c].pos - 1
                 /\ calls'[c].tape = calls[c].tape
            ELSE calls'[c].phase = "done"

(* C17: every reverse-mode call on exp_approx terminates, for every input  *)
(* x: a call that has started reaches its return; the while loop enters at *)
(* most 99 iterations, k going from 1 to at most 100; the tape is finite,  *)
(* at most 8 entries per iteration and two for the failing tests, and its  *)
(* length varies with x (one iteration at x = 0, between 2 and 98 at       *)
(* x = 1.0, 99 at the largest |x|) without the call failing; the replay    *)
(* takes one entry per step from the tape's length down to 0 and then      *)
(* returns.                                                                *)
C17_Terminates ==
    /\ []C17_Bounded
    /\ [][C17_Consume]_vars
    /\ \A c \in CallIds :
          (calls[c].name = "d_exp_approx" /\ calls[c].phase = "classify")
              ~> (calls[c].name = "d_exp_approx" /\ calls[c].phase = "done")

\* d_exp_approx at the largest x has returned after the 99 iterations the bound allows
C17_Witness ==
    /\ Done(1, "d_exp_approx")
    /\ Arg(calls[1], 1) = ToF(R(MaxExpX, 1))
    /\ Iterations(calls[1]) = MaxIterations
    /\ calls[1].pos = 0
    /\ Len(calls[1].tape) > (IterationOps - 1) * MaxIterations


----------------------------------------------------------------------------
(* infidelity: storage overwritten between recording and replay            *)

\* let omega0 = 0.1;
omega0 == R(1, 10)

\* the body of apply_rx on the amplitudes st = [re0, im0, re1, im1], with
\* c and s for my_cos(theta / 2.0) and my_sin(theta / 2.0)
Rx(c, s, st) ==
    << RAdd(RMul(c, st[1]), RMul(s, st[4])),
       RSub(RMul(c, st[2]), RMul(s, st[3])),
       RAdd(RMul(s, st[2]), RMul(c, st[3])),
       RAdd(RMul(RNeg(s), st[1]), RMul(c, st[4])) >>

\* the body of apply_rz
Rz(c, s, st) ==
    << RAdd(RMul(c, st[1]), RMul(s, st[2])),
       RSub(RMul(c, st[2]), RMul(s, st[1])),
       RSub(RMul(c, st[3]), RMul(s, st[4])),
       RAdd(RMul(c, st[4]), RMul(s, st[3])) >>

apply_rx(state, theta) == Rx(my_cos(RDiv(theta, Two)), my_sin(RDiv(theta, Two)), state)
apply_rz(state, theta) == Rz(my_cos(RDiv(theta, Two)), my_sin(RDiv(theta, Two)), state)

\* the derivative of apply_rx in theta
apply_rx_theta(state, theta) ==
    Rx(RDiv(d_my_cos(RDiv(theta, Two)), Two), RDiv(d_my_sin(RDiv(theta, Two)), Two), state)

\* the state of infidelity's loop from step i on, and its derivative in controls[j]
RECURSIVE Evolve(_, _, _, _, _)
Evolve(controls, i, j, st, dst) ==
    IF i > N_STEPS THEN <<st, dst>>
    ELSE LET z == apply_rz(st, omega0)
             dz == apply_rz(dst, omega0)
             dx == apply_rx(dz, controls[i])
             dt == apply_rx_theta(z, controls[i])
             x == apply_rx(z, controls[i])
             dxj == IF i = j THEN [k \in 1 .. 4 |-> RAdd(dx[k], dt[k])] ELSE dx
         IN  Then(<<x, dxj>>, Evolve(controls, i + 1, j, x, dxj))

\* infidelity and its derivative in controls[j], by the product rule:
\* with target = [0, 0, 1, 0] the overlap is state[2] + i state[3]
InfidelityAt(controls, j) ==
    LET ev == Evolve(controls, 1, j, <<One, Zero, Zero, Zero>>, <<Zero, Zero, Zero, Zero>>)
        re == ev[1][3]
        im == ev[1][4]
    IN  << RSub(One, RAdd(RMul(re, re), RMul(im, im))),
           RNeg(RMul(Two, RAdd(RMul(re, ev[2][3]), RMul(im, ev[2][4])))) >>

\* |a - b|
Dist(a, b) == IF RLt(a, b) THEN RSub(b, a) ELSE RSub(a, b)

\* how far a gradient computed on floats may be from another way to compute it
Tolerance == R(1, 1024)

\* the entries of a tape whose operand a or b was read from storage that
\* holds another value now
Overwritten(cs) ==
    {i \in DOMAIN cs.tape :
        \/ ~REq(cs.tape[i].va, Current(cs, cs.tape[i].na, cs.tape[i].va))
        \/ ~REq(cs.tape[i].vb, Current(cs, cs.tape[i].nb, cs.tape[i].vb))}

C15_Gradient ==
    \A c \in CallIds :
        LET cs == calls[c]
        IN  /\ cs.mode = "rev" /\ cs.phase \in {"primal", "replay", "done"} =>
                 \A i \in DOMAIN cs.tape :
                     /\ cs.tape[i].va = cs.store[cs.tape[i].a]
                     /\ cs.tape[i].vb = cs.store[cs.tape[i].b]
            /\ cs.phase = "done" /\ cs.name = "d_infidelity" =>
                 /\ Cardinality({i \in DOMAIN cs.tape : cs.tape[i].op = "store"})
                        = 2 * 4 + N_STEPS * 2 * 4
                 /\ RGe(Tolerance, Dist(cs.ret[1][1], InfidelityAt(cs.args[1], 1)[1]))
                 /\ \A j \in 1 .. N_STEPS :
                        RGe(RMul(Tolerance, cs.seed),
                            Dist(shadow[cs.bufs[1]][j],
                                 RMul(cs.seed, InfidelityAt(cs.args[1], j)[2])))

C15_Step ==
    \A c \in CallIds :
        LET old == calls[c]
            new == calls'[c]
        IN  /\ old.mode = "rev" /\ old.phase = "primal" /\ new.phase \in {"primal", "replay"}
                   /\ Len(new.tape) > Len(old.tape) =>
                 LET e == new.tape[Len(new.tape)]
                 IN  /\ Len(new.tape) = Len(old.tape) + 1
                     /\ e.va = Current(old, e.na, e.va)
                     /\ e.vb = Current(old, e.nb, e.vb)
            /\ old.phase \in {"primal", "replay"} /\ new.phase \in {"primal", "replay", "done"} =>
                 /\ Prefix(new.tape, Len(old.tape)) = old.tape
                 /\ Prefix(new.store, Len(old.store)) = old.store
            /\ old.phase = "replay" /\ old.pos > 0 /\ new # old =>
                 LET e == old.tape[old.pos]
                     g == IF e.out = 0 THEN Zero ELSE old.adj[e.out]
                     k == AdjointRule(e, g)
                 IN  new.adj = Accumulate(old, Accumulate(old, old.adj, e.a, k[1]), e.b, k[2])

(* C15: the replay of a tape entry uses the primal input values captured   *)
(* when the entry was recorded, never a later re-read from storage that    *)
(* may have been overwritten: an entry captures what its operands' storage *)
(* holds at the step that records it; the entries and the values they     *)
(* refer to never change afterwards; each replay step adds to the adjoints *)
(* of the entry's inputs the contributions computed from the captured      *)
(* values; and for infidelity, whose apply_rz and apply_rx overwrite       *)
(* state[0..3] on each of the N_STEPS iterations, the value and gradient   *)
(* returned are those of the product rule applied to the sequence of       *)
(* rotations, up to rounding.                                              *)
C15_CapturedValues == []C15_Gradient /\ [][C15_Step]_vars

\* d_infidelity on main's controls has returned, and its tape holds entries
\* whose operands were read from state-derived storage overwritten since
C15_Witness ==
    /\ Done(1, "d_infidelity")
    /\ calls[1].args[1] = main_controls
    /\ \E i \in Overwritten(calls[1]) :
          calls[1].tape[i].op = "mul" /\ calls[1].tape[i].nb \in {"re0", "im0", "re1", "im1"}
    /\ \E i \in Overwritten(calls[1]) :
          calls[1].tape[i].op = "load" /\ calls[1].tape[i].na = "state[0]"


----------------------------------------------------------------------------
(* The callers' main functions: calls made one after another               *)

\* let lr = 0.5; of the quantum example, let learning_rate = 0.001; of rosenbrock
lr == R(1, 2)
learning_rate == R(1, 1000)

\* the functions a caller with no fixed sequence calls
AnyNames == {"d_rosenbrock", "d_energy", "d_square"}

\* the controls a gradient descent starts from
StartControls == {[i \in 1 .. N_STEPS |-> e] : e \in Elems \cup {Zero}} \cup {main_controls}

\* the locals of a caller before its first call. prog: the main of the
\* quantum example, the main of rosenbrock, the quantum loop with the loss
\* differentiated as well, or calls in any order
MainInit(prog, controls) ==
    [prog |-> prog, pc |-> "call",
     site |-> CASE prog = "quantum" -> "initial"
                [] prog = "rosenbrock" -> "step"
                [] prog = "linearity" -> "infid"
                [] OTHER -> "any",
     iter |-> 0, controls |-> controls,
     grad |-> Zeros(N_STEPS), initial_infid |-> Zero,
     grad_infid |-> Zeros(N_STEPS), grad_energy |-> Zeros(N_STEPS),
     infid |-> Zero, energy |-> Zero, loss |-> Zero,
     x |-> main_rosen_x, y |-> main_rosen_y, f_val |-> Zero, grad_x |-> Zero, grad_y |-> Zero]

\* the call a caller makes next: <<differentiated function, arguments>>
CallSites(m) ==
    CASE m.site \in {"initial", "infid", "final"} -> {<<"d_infidelity", <<m.controls>> >>}
      [] m.site = "energy" -> {<<"d_energy", <<m.controls>> >>}
      [] m.site = "loss" -> {<<"d_loss", <<m.controls>> >>}
      [] m.site = "step" -> {<<"d_rosenbrock", << <<m.x>>, <<m.y>> >> >>}
      [] m.site = "any" -> UNION {{<<n, a>> : a \in Inputs(n)} : n \in AnyNames}

\* a call that keeps the tape and the adjoints of the call before it
StartCall_mut(prev, name, args, seed, bufs) ==
    [NewCall(name, ModeOf(name), Activity(name), args, seed, bufs)
        EXCEPT !.tape = prev.tape, !.adj = prev.adj]

\* the call made after the call prev: a fresh tape, a fresh adjoint accumulator
StartCall(prev, name, args, seed, bufs) ==
    NewCall(name, ModeOf(name), Activity(name), args, seed, bufs)

\* grad_infid[i] + lambda * grad_energy[i]
Direction(m, i) == RAdd(m.grad_infid[i], RMul(lambda, m.grad_energy[i]))

\* the caller's locals once its call has returned ret and left buf in the
\* shadow buffer it passed
Returned(m, ret, buf) ==
    CASE m.site = "initial" ->
            [m EXCEPT !.initial_infid = ret[1][1], !.grad = buf, !.site = "infid", !.pc = "call"]
      [] m.site = "infid" ->
            [m EXCEPT !.infid = ret[1][1], !.grad_infid = buf, !.site = "energy", !.pc = "call"]
      [] m.site = "energy" ->
            [m EXCEPT !.energy = ret[1][1], !.grad_energy = buf,
                      !.loss = RAdd(m.infid, RMul(lambda, ret[1][1])),
                      !.site = IF m.prog = "linearity" THEN "loss" ELSE "infid",
                      !.pc = IF m.prog = "linearity" THEN "call" ELSE "update"]
      [] m.site = "loss" -> [m EXCEPT !.grad = buf, !.site = "infid", !.pc = "update"]
      [] m.site = "final" -> [m EXCEPT !.infid = ret[1][1], !.grad = buf, !.pc = "end"]
      [] m.site = "step" ->
            [m EXCEPT !.f_val = ret[1][1], !.grad_x = ret[2][1], !.grad_y = ret[3][1],
                      !.pc = "update"]
      [] m.site = "any" -> [m EXCEPT !.pc = "call"]

\* controls[i] -= lr * (grad_infid[i] + lambda * grad_energy[i]);
\* x -= learning_rate * grad_x; y -= learning_rate * grad_y;
Updated(m) ==
    LET more == m.iter + 1 < MaxIters
    IN  IF m.prog = "rosenbrock"
        THEN [m EXCEPT !.x = RSub(@, RMul(learning_rate, m.grad_x)),
                       !.y = RSub(@, RMul(learning_rate, m.grad_y)),
                       !.iter = @ + 1,
                       !.pc = IF more THEN "call" ELSE "end"]
        ELSE [m EXCEPT !.controls = [i \in 1 .. N_STEPS |->
                                        RSub(m.controls[i], RMul(lr, Direction(m, i)))],
                       !.iter = @ + 1,
                       !.site = IF ~more /\ m.prog = "quantum" THEN "final" ELSE "infid",
                       !.pc = IF more \/ m.prog = "quantum" THEN "call" ELSE "end"]

\* d_f(args..., &mut [0.0; N], 1.0), made when the call before has returned
MainCall ==
    /\ main.pc = "call"
    /\ calls[1].phase \in {"idle", "done"}
    /\ \E site \in CallSites(main) :
         LET name == site[1]
             args == site[2]
             bufs == [p \in DOMAIN args |-> BufOf(1, Activity(name), p)]
             ls == [p \in DOMAIN args |-> Len(args[p])]
         IN  /\ calls' = [calls EXCEPT ![1] = StartCall(@, name, args, One, bufs)]
             /\ shadow' = InitShadow(shadow, bufs, ls, Zeroed)
             /\ pre' = [pre EXCEPT ![1] = InitShadow(shadow, bufs, ls, Zeroed)]
    /\ round' = 1
    /\ clock' = [clock EXCEPT ![1] = 0]
    /\ main' = [main EXCEPT !.pc = "wait"]

\* let (value, ...) = d_f(...): the caller reads the result and its buffer
MainReturn ==
    /\ main.pc = "wait"
    /\ calls[1].phase = "done"
    /\ main' = Returned(main, calls[1].ret, shadow[1])
    /\ UNCHANGED <<calls, shadow, pre, round, clock>>

\* the update at the end of a loop iteration
MainUpdate ==
    /\ main.pc = "update"
    /\ main' = Updated(main)
    /\ UNCHANGED <<calls, shadow, pre, round, clock>>

InitMain ==
    /\ calls = [c \in CallIds |-> IF c = 1 THEN NoCall("idle") ELSE NoCall("off")]
    /\ shadow = NoShadow
    /\ pre = [c \in CallIds |-> NoShadow]
    /\ round = 0
    /\ clock = [c \in CallIds |-> 0]
    /\ main \in {MainInit(prog, main_controls) : prog \in {"quantum", "rosenbrock", "any"}}
                \cup {MainInit("linearity", controls) : controls \in StartControls}

NextMain ==
    \/ MainCall
    \/ MainReturn
    \/ MainUpdate
    \/ \E c \in CallIds :
          \/ Classify(c)
          \/ Exec(c)
          \/ Replay(c)
          \/ Finish(c)

SpecMain == InitMain /\ [][NextMain]_vars

C11_Fresh ==
    \A c \in CallIds :
        LET cs == calls[c]
        IN  /\ cs.phase = "classify" =>
                 cs.tape = <<>> /\ cs.adj = <<>> /\ cs.store = <<>> /\ cs.ops = 0
            /\ cs.phase = "primal" => cs.adj = <<>> /\ Len(cs.tape) = cs.ops
            /\ cs.phase = "replay" /\ cs.pos = Len(cs.tape) =>
                 \A r \in DOMAIN cs.adj :
                     cs.adj[r] = IF r = cs.outs[1] THEN cs.seed ELSE Zero
            /\ cs.phase \in {"replay", "done"} => Len(cs.tape) = cs.ops
            /\ cs.phase = "done" /\ main.prog \in {"rosenbrock", "any"} =>
                 /\ cs.ret = OnZeroed(cs).cs.ret
                 /\ \A p \in Duplicateds(cs) :
                        shadow[cs.bufs[p]] = OnZeroed(cs).sh[cs.bufs[p]]

\* the call of the first loop iteration of the quantum example has returned
FirstIteration ==
    /\ main.prog = "quantum"
    /\ main.iter = 0
    /\ main.site = "energy"

(* C11: nothing leaks from one call into the next: a call starts with an   *)
(* empty tape and no adjoints, its tape holds its own operations only, and *)
(* its replay starts from adjoints that are zero except the seed of the    *)
(* output; so, in a sequence of calls each on a zeroed shadow buffer, a    *)
(* call returns and writes what the same call made alone returns and       *)
(* writes (rosenbrock's descent loop, and calls of d_rosenbrock, d_energy, *)
(* d_square in any order); and in the quantum example the call at the      *)
(* first loop iteration returns the infidelity and the gradient of the     *)
(* call made before the loop on the same controls.                         *)
C11_NoLeak ==
    /\ C11_Fresh
    /\ FirstIteration =>
          /\ main.infid = main.initial_infid
          /\ main.grad_infid = main.grad

\* the first loop iteration of the quantum example has its infidelity and a
\* gradient that is not zero, after the call before the loop
C11_Witness ==
    /\ FirstIteration
    /\ main.pc = "call"
    /\ Done(1, "d_infidelity")
    /\ main.controls = main_controls
    /\ main.grad_infid = shadow[1]
    /\ \A i \in 1 .. N_STEPS : ~REq(main.grad[i], Zero)

(* C12: the gradient of the linear combination infid + lambda * energy is  *)
(* the same combination of the gradients: d_loss, the combined function    *)
(* differentiated, leaves grad_infid[i] + lambda * grad_energy[i] at every *)
(* index i, the value the update step uses, and returns the loss, for      *)
(* every controls vector the descent starts from and every one it reaches. *)
C12_Linearity ==
    main.prog = "linearity" /\ main.pc = "update" =>
        /\ Done(1, "d_loss")
        /\ calls[1].args[1] = main.controls
        /\ calls[1].ret[1][1] = main.loss
        /\ \A i \in 1 .. N_STEPS : main.grad[i] = Direction(main, i)

\* d_loss has returned on main's controls, where both gradients are not zero
C12_Witness ==
    /\ main.prog = "linearity"
    /\ main.pc = "update"
    /\ main.controls = main_controls
    /\ \A i \in 1 .. N_STEPS :
          /\ main.grad[i] = Direction(main, i)
          /\ ~REq(main.grad_infid[i], Zero)
          /\ ~REq(main.grad_energy[i], Zero)

====
